---- MODULE Spec2Model ----
(***************************************************************************)
(* Emblemsync component tracker: the upload-ingestion pipeline.            *)
(*                                                                         *)
(* Two deployments of the pipeline live in the repository:                 *)
(*   "local"    src/src/pages/ViewAllPage.tsx: parses, validates and        *)
(*              normalizes a file in the browser and keeps the component   *)
(*              set in React state (localComponents);                      *)
(*   "frontend" src/frontend/src/pages/UploadPage.tsx: parses and validates *)
(*              in the browser, hands the raw records to the backend.      *)
(* app says which one a behaviour is about; "norm" applies the field       *)
(* normalizer on its own to a set of raw strings.  Spec runs every         *)
(* handler of the two pages, SpecUpload the upload handlers over every     *)
(* file of Files, SpecNorm the normalizer.                                 *)
(*                                                                         *)
(* Text is a sequence of one-character strings, so that toLowerCase, trim  *)
(* and parseInt are computed character by character as JavaScript does.    *)
(***************************************************************************)
EXTENDS Integers, Sequences, FiniteSets, TLC

VARIABLES
    app,                \* which program runs: "local", "frontend" or "norm"
    \* ---- src/src/pages/ViewAllPage.tsx (React state of ViewAllPage)
    localComponents,    \* Component[]                       (line 77)
    uploading,          \* boolean                           (line 58)
    uploadResults,      \* UploadResults | null, <<>> = null (line 59)
    file,               \* the File handleUpload was given, <<>> = none yet
    showAddEdit,        \* boolean                           (line 62)
    editingComponent,   \* Component | null, <<>> = null     (line 63)
    \* ---- src/frontend/src/pages/UploadPage.tsx (React state of UploadPage)
    up_uploading,       \* boolean                           (line 46)
    up_uploadResults,   \* UploadResults | null, <<>> = null (line 47)
    up_file,            \* the File processFile was given, <<>> = none yet
    showUploadResultsModal, \* boolean                       (line 50)
    saving,             \* boolean                           (line 48)
    request,            \* the records saveToDatabase has sent, <<>> = none
    notification,       \* "none", "success" or "error"      (line 49)
    backend,            \* the records the backend holds
    \* ---- the field normalizer on its own
    normValue,          \* the raw string handed to the normalizer
    normComplexity,     \* what mapComplexity returned, <<>> = not called yet
    normStatus,         \* what mapStatus returned, <<>> = not called yet
    \* ---- src/src/pages/ViewAllPage.tsx: selection and export
    selectedRows,       \* Set<string>: the identifiers ticked   (line 53)
    download,           \* the file exportSelected has written, <<>> = none
    \* ---- src/src/pages/ViewAllPage.tsx: SearchPage
    catalog,            \* the records of mockComponents      (line 1052)
    searchQuery,        \* string                             (line 1057)
    filters,            \* ComponentFilters                   (line 1059)
    \* ---- the backend, as /api/components shows it
    server,             \* the records the component store holds
    \* ---- src/unnamed/part_005 (React state of DataProvider)
    ctx_components,     \* components: Component[]            (line 20)
    loading,            \* boolean                            (line 21)
    error,              \* string | null, <<>> = null         (line 22)
    \* ---- src/frontend/src/pages/ViewAllPage.tsx (React state)
    searchTerm,         \* string                             (line 42)
    selectedTower,      \* string                             (line 43)
    selectedStatus,     \* string                             (line 44)
    selectedComplexity, \* string                             (line 45)
    list_selectedRows,  \* Set<string>                        (line 50)
    list_download,      \* the records of the file exportData saved,
                        \* <<>> = none
    alerted,            \* what the last alert said, "none" = no alert
    \* ---- src/unnamed/part_011 (WebSocketProvider) and its socket
    isConnected,        \* boolean                            (line 44)
    broadcast,          \* the component_update messages sent to the socket
    socketQueue,        \* those of them not yet delivered
    windowEvents,       \* the component_update events dispatched on window
    \* ---- src/src/context/ThemeContext.tsx (ThemeProvider)
    theme,              \* Theme, as rendered                 (line 68)
    nextTheme,          \* the state setTheme has queued, "none" = none
    pendingEffects,     \* the effects the last render left to run
    storedTheme,        \* localStorage 'emblemsight-theme', "none" = absent
    dataTheme,          \* the data-theme attribute, "none" = absent
    prefersDark,        \* matchMedia('(prefers-color-scheme: dark)')
    savedTheme,         \* what storage held when the provider mounted
    toggles,            \* the times toggleTheme ran since the mount
    \* ---- pagination of the two list pages
    currentPage,        \* src/src/pages/ViewAllPage.tsx        (line 49)
    itemsPerPage,       \* src/src/pages/ViewAllPage.tsx        (line 50)
    list_currentPage,   \* src/frontend/src/pages/ViewAllPage.tsx (line 48)
    \* ---- src/unnamed/part_005 (DataProvider), its calls one by one
    requests,           \* the calls of the provider that await their
                        \* response, each with the reply once it is sent
    returned,           \* what the last call to finish returned
    calls,              \* the calls of the provider made so far
    \* ---- src/frontend/src/pages/ViewAllPage.tsx: handleUpload
    list_uploading,     \* boolean                             (line 56)
    list_uploadResults, \* UploadResults | null, <<>> = null   (line 55)
    list_showModal,     \* showUploadResultsModal              (line 54)
    closure,            \* `components` as the running handleUpload
                        \* captured it, <<>> while none runs
    awaited,            \* what the running handleUpload awaits
    \* ---- src/unnamed/part_011 (WebSocketProvider): activities
    recentActivities,   \* UserActivity[]                      (line 46)
    received,           \* the activities the socket has delivered so far
    \* ---- the file being read by processFile / processUploadFile
    unreadable,         \* the browser cannot read the file given
    \* ---- src/frontend/src/components/LiveProgressIndicator.tsx
    show,               \* the prop `show`                     (line 29)
    progressData,       \* ProgressData | null, by its kind    (line 35)
    isComplete,         \* boolean                             (line 36)
    isError,            \* boolean                             (line 37)
    timers,             \* the timeouts set and not yet run, each the
                        \* number of the upload_complete that set it
    completes,          \* the upload_complete events handled so far
    closeCalls          \* the calls of onClose made for each of them

localVars == <<localComponents, uploading, uploadResults, file, showAddEdit,
               editingComponent>>
uploadPageVars == <<up_uploading, up_uploadResults, up_file,
                    showUploadResultsModal, saving, request,
                    notification, backend>>
normVars == <<normValue, normComplexity, normStatus>>
selectVars == <<selectedRows, download>>
searchVars == <<catalog, searchQuery, filters>>
dataVars == <<server, ctx_components, loading, error>>
filterVars == <<searchTerm, selectedTower, selectedStatus, selectedComplexity>>
pickVars == <<list_selectedRows, list_download, alerted>>
socketVars == <<isConnected, broadcast, socketQueue, windowEvents>>
pageVars == <<list_currentPage>>
listVars == <<dataVars, filterVars, pickVars, socketVars, pageVars>>
pagerVars == <<currentPage, itemsPerPage>>
themeVars == <<theme, nextTheme, pendingEffects, storedTheme, dataTheme,
               prefersDark, savedTheme, toggles>>
ctxVars == <<requests, returned, calls>>
listUploadVars == <<list_uploading, list_uploadResults, list_showModal,
                    closure, awaited>>
activityVars == <<recentActivities, received>>
readVars == <<unreadable>>
indicatorVars == <<show, progressData, isComplete, isError, timers,
                   completes, closeCalls>>
moreVars == <<ctxVars, listUploadVars, activityVars, readVars,
              indicatorVars>>
restNoPager == <<selectVars, searchVars, listVars, themeVars, moreVars>>
restVars == <<restNoPager, pagerVars>>
\* everything but the state of one page
exceptSelect == <<app, moreVars, pagerVars, localVars, uploadPageVars, normVars, searchVars,
                  listVars, themeVars>>
exceptSearch == <<app, moreVars, pagerVars, localVars, uploadPageVars, normVars, selectVars,
                  listVars, themeVars>>
exceptList == <<app, moreVars, pagerVars, localVars, uploadPageVars, normVars, selectVars,
                searchVars, themeVars>>
\* everything but the state of the list page and of the provider's calls
exceptData == <<app, pagerVars, localVars, uploadPageVars, normVars,
                selectVars, searchVars, themeVars, listUploadVars,
                activityVars, readVars, indicatorVars>>
\* everything but the state of the list page and of its handleUpload
exceptListUpload == <<app, pagerVars, localVars, uploadPageVars, normVars,
                      selectVars, searchVars, themeVars, ctxVars,
                      activityVars, readVars, indicatorVars>>
\* everything but the activities of the socket provider
exceptActivity == <<app, pagerVars, localVars, uploadPageVars, normVars,
                    selectVars, searchVars, themeVars, listVars, ctxVars,
                    listUploadVars, readVars, indicatorVars>>
\* everything but the state of the progress indicator
exceptIndicator == <<app, pagerVars, localVars, uploadPageVars, normVars,
                     selectVars, searchVars, themeVars, listVars, ctxVars,
                     listUploadVars, activityVars, readVars>>
\* what the upload handlers of the two pages leave alone when they are
\* given a file
exceptRead == <<selectVars, searchVars, listVars, themeVars, pagerVars,
                ctxVars, listUploadVars, activityVars, indicatorVars>>
exceptPager == <<app, localVars, uploadPageVars, normVars, restNoPager>>
exceptTheme == <<app, moreVars, pagerVars, localVars, uploadPageVars, normVars, selectVars,
                 searchVars, listVars>>
vars == <<app, localVars, uploadPageVars, normVars, restVars>>

(***************************************************************************)
(* Bounds of the model.                                                    *)
(***************************************************************************)
\* data rows (or JSON items) in an uploaded file
MaxRows == 2
\* records the component set may hold
MaxStore == 2
\* distinct texts `${Date.now()}-${Math.random().toString(36).substr(2, 9)}`
NumSuffix == 2

(***************************************************************************)
(* Text.                                                                   *)
(***************************************************************************)
\* JavaScript's undefined, where a string is expected (row[3] of a short row)
Undefined == <<"#undefined">>
Empty == <<>>

UpperCaseLetters ==
    <<"A", "B", "C", "D", "E", "F", "G", "H", "I", "J", "K", "L", "M",
      "N", "O", "P", "Q", "R", "S", "T", "U", "V", "W", "X", "Y", "Z">>
LowerCaseLetters ==
    <<"a", "b", "c", "d", "e", "f", "g", "h", "i", "j", "k", "l", "m",
      "n", "o", "p", "q", "r", "s", "t", "u", "v", "w", "x", "y", "z">>
WhiteSpace == {" ", "\t", "\n", "\r"}
Digits == <<"0", "1", "2", "3", "4", "5", "6", "7", "8", "9">>

Index(letters, c) == CHOOSE i \in 1..Len(letters) : letters[i] = c
Occurs(letters, c) == \E i \in 1..Len(letters) : letters[i] = c

\* String.prototype.toLowerCase
toLowerCase(s) ==
    [i \in 1..Len(s) |->
        IF Occurs(UpperCaseLetters, s[i])
        THEN LowerCaseLetters[Index(UpperCaseLetters, s[i])]
        ELSE s[i]]

\* the inverse mapping, used only to build raw inputs in other casings
toUpperCase(s) ==
    [i \in 1..Len(s) |->
        IF Occurs(LowerCaseLetters, s[i])
        THEN UpperCaseLetters[Index(LowerCaseLetters, s[i])]
        ELSE s[i]]

RECURSIVE trimStart(_)
trimStart(s) ==
    IF s # <<>> /\ Head(s) \in WhiteSpace THEN trimStart(Tail(s)) ELSE s

RECURSIVE trimEnd(_)
trimEnd(s) ==
    IF s # <<>> /\ s[Len(s)] \in WhiteSpace
    THEN trimEnd(SubSeq(s, 1, Len(s) - 1))
    ELSE s

\* String.prototype.trim
trim(s) == trimEnd(trimStart(s))

\* a || b on strings: undefined and '' are falsy
OrElse(a, b) == IF a = Undefined \/ a = Empty THEN b ELSE a

\* !a on strings
Falsy(a) == a = Undefined \/ a = Empty

(***************************************************************************)
(* The constant strings of the program.                                    *)
(***************************************************************************)
Simple == <<"S", "i", "m", "p", "l", "e">>
Medium == <<"M", "e", "d", "i", "u", "m">>
Complex == <<"C", "o", "m", "p", "l", "e", "x">>
Released == <<"R", "e", "l", "e", "a", "s", "e", "d">>
InDevelopment == <<"I", "n", " ", "D", "e", "v", "e", "l", "o", "p", "m", "e", "n", "t">>
Planned == <<"P", "l", "a", "n", "n", "e", "d">>
Enhancement == <<"E", "n", "h", "a", "n", "c", "e", "m", "e", "n", "t">>
s_low == <<"l", "o", "w">>
s_simple == <<"s", "i", "m", "p", "l", "e">>
s_easy == <<"e", "a", "s", "y">>
s_basic == <<"b", "a", "s", "i", "c">>
s_high == <<"h", "i", "g", "h">>
s_complex == <<"c", "o", "m", "p", "l", "e", "x">>
s_hard == <<"h", "a", "r", "d">>
s_difficult == <<"d", "i", "f", "f", "i", "c", "u", "l", "t">>
s_advanced == <<"a", "d", "v", "a", "n", "c", "e", "d">>
s_medium == <<"m", "e", "d", "i", "u", "m">>
s_moderate == <<"m", "o", "d", "e", "r", "a", "t", "e">>
s_intermediate == <<"i", "n", "t", "e", "r", "m", "e", "d", "i", "a", "t", "e">>
s_mid == <<"m", "i", "d">>
s_released == <<"r", "e", "l", "e", "a", "s", "e", "d">>
s_live == <<"l", "i", "v", "e">>
s_production == <<"p", "r", "o", "d", "u", "c", "t", "i", "o", "n">>
s_deployed == <<"d", "e", "p", "l", "o", "y", "e", "d">>
s_complete == <<"c", "o", "m", "p", "l", "e", "t", "e">>
s_done == <<"d", "o", "n", "e">>
s_in_development == <<"i", "n", " ", "d", "e", "v", "e", "l", "o", "p", "m", "e", "n", "t">>
s_indevelopment_h == <<"i", "n", "-", "d", "e", "v", "e", "l", "o", "p", "m", "e", "n", "t">>
s_development == <<"d", "e", "v", "e", "l", "o", "p", "m", "e", "n", "t">>
s_dev == <<"d", "e", "v">>
s_in_progress == <<"i", "n", " ", "p", "r", "o", "g", "r", "e", "s", "s">>
s_inprogress_h == <<"i", "n", "-", "p", "r", "o", "g", "r", "e", "s", "s">>
s_active == <<"a", "c", "t", "i", "v", "e">>
s_working == <<"w", "o", "r", "k", "i", "n", "g">>
s_planned == <<"p", "l", "a", "n", "n", "e", "d">>
s_pending == <<"p", "e", "n", "d", "i", "n", "g">>
s_future == <<"f", "u", "t", "u", "r", "e">>
s_scheduled == <<"s", "c", "h", "e", "d", "u", "l", "e", "d">>
s_upcoming == <<"u", "p", "c", "o", "m", "i", "n", "g">>
Security == <<"S", "e", "c", "u", "r", "i", "t", "y">>
CoreBanking == <<"C", "o", "r", "e", "B", "a", "n", "k", "i", "n", "g">>
AuthModule == <<"A", "u", "t", "h", " ", "M", "o", "d", "u", "l", "e">>
AppGroup == <<"A", "p", "p", "G", "r", "o", "u", "p">>
Type == <<"T", "y", "p", "e">>
s_desc == <<"d", "e", "s", "c">>
s_x == <<"x">>
s_2024 == <<"2", "0", "2", "4">>
s_3 == <<"3">>
s_1 == <<"1">>
Blank == <<" ">>
s_data == <<"d", "a", "t", "a">>
s_notes == <<"n", "o", "t", "e", "s">>
s_csv == <<"c", "s", "v">>
s_CSV == <<"C", "S", "V">>
s_json == <<"j", "s", "o", "n">>
s_xlsx == <<"x", "l", "s", "x">>
s_xls == <<"x", "l", "s">>
s_txt == <<"t", "x", "t">>
s_TowerName == <<"T", "o", "w", "e", "r", " ", "N", "a", "m", "e">>
s_AppGroup == <<"A", "p", "p", " ", "G", "r", "o", "u", "p">>
s_ComponentType == <<"C", "o", "m", "p", "o", "n", "e", "n", "t", " ", "T", "y", "p", "e">>
s_HIGH == <<"H", "I", "G", "H">>
s_dev_padded == <<" ", "D", "e", "v", " ">>
s_abc == <<"a", "b", "c">>
s_0 == <<"0">>
m_Row ==
    <<"R", "o", "w", " ">>
m_Item ==
    <<"I", "t", "e", "m", " ">>
m_Missing ==
    <<":", " ", "M", "i", "s", "s", "i", "n", "g", " ", "r", "e", "q",
      "u", "i", "r", "e", "d", " ", "f", "i", "e", "l", "d", "s">>
m_MissingNamed ==
    <<":", " ", "M", "i", "s", "s", "i", "n", "g", " ", "r", "e", "q",
      "u", "i", "r", "e", "d", " ", "f", "i", "e", "l", "d", "s", " ",
      "(", "T", "o", "w", "e", "r", " ", "N", "a", "m", "e", ",", " ",
      "A", "p", "p", " ", "G", "r", "o", "u", "p", ",", " ", "C", "o",
      "m", "p", "o", "n", "e", "n", "t", " ", "T", "y", "p", "e", ")">>
m_UnsupportedFileType ==
    <<"U", "n", "s", "u", "p", "p", "o", "r", "t", "e", "d", " ", "f",
      "i", "l", "e", " ", "t", "y", "p", "e">>
m_UploadCsvJson ==
    <<".", " ", "P", "l", "e", "a", "s", "e", " ", "u", "p", "l", "o",
      "a", "d", " ", "C", "S", "V", " ", "o", "r", " ", "J", "S", "O",
      "N", " ", "f", "i", "l", "e", "s", ".">>
m_UploadCsvExcelJson ==
    <<".", " ", "P", "l", "e", "a", "s", "e", " ", "u", "p", "l", "o",
      "a", "d", " ", "C", "S", "V", ",", " ", "E", "x", "c", "e", "l",
      ",", " ", "o", "r", " ", "J", "S", "O", "N", " ", "f", "i", "l",
      "e", "s", ".">>
m_FailedJson ==
    <<"F", "a", "i", "l", "e", "d", " ", "t", "o", " ", "p", "a", "r",
      "s", "e", " ", "J", "S", "O", "N", ":", " ">>
m_FailedJsonFile ==
    <<"F", "a", "i", "l", "e", "d", " ", "t", "o", " ", "p", "a", "r",
      "s", "e", " ", "J", "S", "O", "N", " ", "f", "i", "l", "e", ":",
      " ">>
m_SyntaxError ==
    <<"S", "y", "n", "t", "a", "x", "E", "r", "r", "o", "r">>
m_TypeError ==
    <<"T", "y", "p", "e", "E", "r", "r", "o", "r">>

(***************************************************************************)
(* Field normalizer: src/src/pages/ViewAllPage.tsx, lines 160-211.         *)
(***************************************************************************)
\* a value that is not a string: the number 3 of a JSON document
NumberThree == <<"#number", "3">>
\* "value.toLowerCase is not a function": the call does not return
TypeErrorThrown == <<"#TypeError">>

\* value?.toLowerCase()
normalize_noTrim(value) ==
    IF value = Undefined THEN Undefined
    ELSE IF value = NumberThree THEN TypeErrorThrown
    ELSE toLowerCase(value)
\* value?.toLowerCase()?.trim(): ?. guards against undefined and null
\* only, a number has no toLowerCase
normalize(value) ==
    IF value = Undefined THEN Undefined
    ELSE IF value = NumberThree THEN TypeErrorThrown
    ELSE trim(toLowerCase(value))

\* the case labels of mapComplexity's switch
SimpleCases == {s_low, s_simple, s_easy, s_basic}
ComplexCases == {s_high, s_complex, s_hard, s_difficult, s_advanced}
MediumCases == {s_medium, s_moderate, s_intermediate, s_mid}

mapComplexity(value) ==
    LET normalized == normalize(value) IN
    CASE normalized = TypeErrorThrown -> TypeErrorThrown
      [] normalized \in SimpleCases -> Simple
      [] normalized \in ComplexCases -> Complex
      [] OTHER -> Medium

\* the case labels of mapStatus's switch
ReleasedCases ==
    {s_released, s_live, s_production, s_deployed, s_complete, s_done}
InDevelopmentCases ==
    {s_in_development, s_indevelopment_h, s_development, s_dev,
     s_in_progress, s_inprogress_h, s_active, s_working}
PlannedCases == {s_planned, s_pending, s_future, s_scheduled, s_upcoming}

mapStatus(value) ==
    LET normalized == normalize(value) IN
    CASE normalized = TypeErrorThrown -> TypeErrorThrown
      [] normalized \in ReleasedCases -> Released
      [] normalized \in InDevelopmentCases -> InDevelopment
      [] OTHER -> Planned

\* the declared enumerations (interface UploadData, lines 33 and 36)
Complexities == {Simple, Medium, Complex}
Statuses == {Released, InDevelopment, Planned}

(***************************************************************************)
(* parseInt(x) || fallback, as in "parseInt(row[5]) || new Date()...".     *)
(***************************************************************************)
\* new Date().getFullYear() and new Date().getMonth() + 1 at the time of use
CurrentYear == 2025
CurrentMonth == 7

RECURSIVE digitsValue(_, _)
\* the value of the longest prefix of digits of s, continuing from acc
digitsValue(s, acc) ==
    IF s # <<>> /\ Occurs(Digits, Head(s))
    THEN digitsValue(Tail(s), 10 * acc + (Index(Digits, Head(s)) - 1))
    ELSE acc

\* parseInt: leading white space, an optional sign, then decimal digits;
\* NaN when no digit follows
parseInt(x) ==
    LET s == IF x = Undefined THEN Undefined ELSE trimStart(x)
        signed == s # <<>> /\ Head(s) \in {"-", "+"}
        body == IF signed THEN Tail(s) ELSE s
    IN  IF body = <<>> \/ ~Occurs(Digits, Head(body))
        THEN [nan |-> TRUE, val |-> 0]
        ELSE [nan |-> FALSE,
              val |-> IF signed /\ Head(s) = "-"
                      THEN 0 - digitsValue(body, 0)
                      ELSE digitsValue(body, 0)]

\* n || fallback on numbers: NaN and 0 are falsy
parseIntOr(x, fallback) ==
    LET n == parseInt(x) IN IF n.nan \/ n.val = 0 THEN fallback ELSE n.val

(***************************************************************************)
(* Uploaded files.  A file is its name, split at the dots, and what the    *)
(* two parsers make of its content: rows is Papa.parse's (or XLSX's)       *)
(* result.data with empty lines already skipped, doc is JSON.parse's       *)
(* result.                                                                 *)
(***************************************************************************)
HeaderRow == <<s_TowerName, s_AppGroup, s_ComponentType>>
\* the two rows of the partial-success scenario
RowA1 == <<Security, CoreBanking, AuthModule, s_low, s_live, s_2024, s_3,
           Enhancement, s_desc>>
RowA2 == <<Empty, AppGroup, Type, Medium, Planned, s_2024, s_1, Empty, s_x>>
\* a line without a delimiter: one field
RowOneField == <<Security>>
\* a short row whose tower name is white space only
RowBlankTower == <<Blank, AppGroup, Type, s_HIGH, s_dev_padded, s_abc, s_0>>
DataRows == {RowA1, RowA2, RowOneField, RowBlankTower}

\* JSON items are objects: functions from property names to values
NullItem == [null |-> Empty]
ItemA1 ==
    [towerName |-> Security, appGroup |-> CoreBanking,
     componentType |-> AuthModule, complexity |-> s_low, status |-> s_live,
     year |-> s_2024, month |-> s_3, description |-> s_desc]
ItemAliasKeys ==
    ("Tower Name" :> Blank) @@ ("app_group" :> AppGroup)
        @@ ("Component Type" :> Type) @@ ("Complexity" :> s_HIGH)
        @@ ("Status" :> s_dev_padded) @@ ("Year" :> s_abc)
ItemNoTower == [appGroup |-> AppGroup, componentType |-> Type]
JsonItems == {ItemA1, ItemAliasKeys, ItemNoTower, NullItem}
\* {"towerName": "Security", ..., "complexity": 3}
ItemNumberComplexity ==
    [towerName |-> Security, appGroup |-> CoreBanking,
     componentType |-> AuthModule, complexity |-> NumberThree]

SeqsUpTo(S, n) == UNION {[1..k -> S] : k \in 0..n}

InvalidDoc == [kind |-> "invalid", items |-> <<>>]
CsvFile(ext, rows) == [name |-> <<s_data, ext>>, rows |-> rows, doc |-> InvalidDoc]
JsonFile(doc) == [name |-> <<s_data, s_json>>, rows |-> <<>>, doc |-> doc]

CsvFiles ==
    {CsvFile(s_csv, <<HeaderRow>> \o d) : d \in SeqsUpTo(DataRows, MaxRows)}
        \cup {CsvFile(s_csv, <<>>), CsvFile(s_CSV, <<HeaderRow, RowA1>>)}
SheetFiles == {CsvFile(s_xlsx, <<HeaderRow, RowA1>>), CsvFile(s_xls, <<HeaderRow, <<>>, RowA2>>)}
JsonFiles ==
    {JsonFile([kind |-> "array", items |-> d]) : d \in SeqsUpTo(JsonItems, MaxRows)}
        \cup {JsonFile([kind |-> "object", items |-> <<ItemA1>>]),
              JsonFile([kind |-> "array", items |-> <<ItemNumberComplexity>>]),
              JsonFile(InvalidDoc)}
\* notes.txt, and a file called notes: no dot in its name
TextFiles ==
    {[name |-> <<s_notes, s_txt>>, rows |-> <<HeaderRow, RowA1>>,
      doc |-> InvalidDoc],
     [name |-> <<s_notes>>, rows |-> <<HeaderRow, RowA1>>,
      doc |-> InvalidDoc]}
Files == CsvFiles \cup SheetFiles \cup JsonFiles \cup TextFiles

\* the files the pages are given: a header alone, the partial-success
\* scenario, a file of one valid row, and one file of each other kind
HeaderOnlyFile == CsvFile(s_csv, <<HeaderRow>>)
ScenarioAFile == CsvFile(s_csv, <<HeaderRow, RowA1, RowA2>>)
OneRowFile == CsvFile(s_csv, <<HeaderRow, RowA1>>)
TextFile == [name |-> <<s_notes, s_txt>>, rows |-> <<HeaderRow, RowA1>>, doc |-> InvalidDoc]
PageFiles ==
    {HeaderOnlyFile, ScenarioAFile, OneRowFile, TextFile,
     CsvFile(s_xlsx, <<HeaderRow, RowA1>>),
     JsonFile([kind |-> "array", items |-> <<ItemA1>>]),
     JsonFile(InvalidDoc)}

\* file.name.split('.').pop()?.toLowerCase()
fileType(f) == toLowerCase(f.name[Len(f.name)])

\* row[i] of a JavaScript array: undefined past the end
At(row, i) == IF i + 1 <= Len(row) THEN row[i + 1] ELSE Undefined
\* item.key of a JavaScript object: undefined when absent
Get(item, key) == IF key \in DOMAIN item THEN item[key] ELSE Undefined

RECURSIVE toString(_)
\* String(n) for n >= 0, as a template literal prints a number
toString(n) ==
    IF n < 10 THEN <<Digits[n + 1]>>
    ELSE toString(n \div 10) \o <<Digits[(n % 10) + 1]>>

\* s.startsWith(prefix)
startsWith(s, prefix) ==
    Len(s) >= Len(prefix) /\ SubSeq(s, 1, Len(prefix)) = prefix

(***************************************************************************)
(* src/src/pages/ViewAllPage.tsx: processUploadFile, lines 214-298.        *)
(***************************************************************************)
\* lines 227-240
csvComponent(row) ==
    [towerName |-> OrElse(At(row, 0), Empty),
     appGroup |-> OrElse(At(row, 1), Empty),
     componentType |-> OrElse(At(row, 2), Empty),
     complexity |-> mapComplexity(OrElse(At(row, 3), Medium)),
     status |-> mapStatus(OrElse(At(row, 4), Planned)),
     year |-> parseIntOr(At(row, 5), CurrentYear),
     month |-> parseIntOr(At(row, 6), CurrentMonth),
     changeType |-> OrElse(At(row, 7), Enhancement),
     description |-> OrElse(At(row, 8), Empty)]

\* lines 266-279
jsonComponent(item) ==
    [towerName |-> OrElse(Get(item, "towerName"),
                     OrElse(Get(item, "Tower Name"),
                       OrElse(Get(item, "tower_name"), Empty))),
     appGroup |-> OrElse(Get(item, "appGroup"),
                    OrElse(Get(item, "App Group"),
                      OrElse(Get(item, "app_group"), Empty))),
     componentType |-> OrElse(Get(item, "componentType"),
                         OrElse(Get(item, "Component Type"),
                           OrElse(Get(item, "component_type"), Empty))),
     complexity |-> mapComplexity(OrElse(Get(item, "complexity"),
                                    OrElse(Get(item, "Complexity"), Medium))),
     status |-> mapStatus(OrElse(Get(item, "status"),
                            OrElse(Get(item, "Status"), Planned))),
     year |-> parseIntOr(OrElse(Get(item, "year"), Get(item, "Year")),
                         CurrentYear),
     month |-> parseIntOr(OrElse(Get(item, "month"), Get(item, "Month")),
                          CurrentMonth),
     changeType |-> OrElse(Get(item, "changeType"),
                      OrElse(Get(item, "Change Type"),
                        OrElse(Get(item, "change_type"), Enhancement))),
     description |-> OrElse(Get(item, "description"),
                       OrElse(Get(item, "Description"), Empty))]

\* line 242
missingRequired(component) ==
    Falsy(component.towerName) \/ Falsy(component.appGroup)
        \/ Falsy(component.componentType)

\* result.data.slice(1)
slice1(rows) == IF rows = <<>> THEN <<>> ELSE Tail(rows)

\* `Row ${index + 2}`, line 243: index counts the rows after the header
\* from 0, and the header is row 1 of the file
csvRowNumber_recordIndex(index) == index + 1
csvRowNumber(index) == index + 2
\* `Item ${index + 1}`, line 282
jsonItemNumber(index) == index + 1

RECURSIVE csvForEach(_, _, _)
\* lines 225-248: the forEach over the data rows, from index on; acc is
\* the data and errors arrays so far
csvForEach(rows, index, acc) ==
    IF index >= Len(rows) THEN acc
    ELSE LET row == rows[index + 1]
             component == csvComponent(row)
         IN  csvForEach(rows, index + 1,
                 IF Len(row) > 1
                 THEN IF missingRequired(component)
                      THEN [acc EXCEPT !.errors = Append(@,
                              m_Row \o toString(csvRowNumber(index)) \o m_Missing)]
                      ELSE [acc EXCEPT !.data = Append(@, component)]
                 ELSE acc)

RECURSIVE jsonForEach(_, _, _)
\* lines 265-286
jsonForEach(items, index, acc) ==
    IF index >= Len(items) THEN acc
    ELSE LET component == jsonComponent(items[index + 1])
         IN  jsonForEach(items, index + 1,
                 IF missingRequired(component)
                 THEN [acc EXCEPT !.errors = Append(@,
                         m_Item \o toString(jsonItemNumber(index)) \o m_Missing)]
                 ELSE [acc EXCEPT !.data = Append(@, component)])

NoneYet == [data |-> <<>>, errors |-> <<>>]

\* JSON.parse throws on an invalid document, and item.complexity throws on
\* a null item; both are caught at line 289
isNull(item) == "null" \in DOMAIN item
\* lines 161 and 185: mapComplexity or mapStatus is given a number
normalizerThrows(item) ==
    \/ jsonComponent(item).complexity = TypeErrorThrown
    \/ jsonComponent(item).status = TypeErrorThrown
jsonThrows(doc) ==
    \/ doc.kind = "invalid"
    \/ \E i \in 1..Len(doc.items) :
           isNull(doc.items[i]) \/ normalizerThrows(doc.items[i])
\* what the caught error prints as
jsonError(doc) == IF doc.kind = "invalid" THEN m_SyntaxError ELSE m_TypeError

UploadResult(success, fileName, data, errors) ==
    [success |-> success, fileName |-> fileName, data |-> data, errors |-> errors]

\* line 250
csvSuccess(acc) == Len(acc.errors) = 0
\* line 288
jsonSuccess(acc) == Len(acc.errors) = 0

\* an unknown extension read as delimited text
unsupportedFile_asCsv(f) ==
    LET acc == csvForEach(slice1(f.rows), 0, NoneYet)
    IN  UploadResult(csvSuccess(acc), f.name, acc.data, acc.errors)
\* line 295
unsupportedFile(f) ==
    UploadResult(FALSE, f.name, <<>>,
        <<m_UnsupportedFileType \o m_UploadCsvJson>>)

processUploadFile(f) ==
    IF fileType(f) = s_csv
    THEN LET acc == csvForEach(slice1(f.rows), 0, NoneYet)
         IN  UploadResult(csvSuccess(acc), f.name, acc.data, acc.errors)
    ELSE IF fileType(f) = s_json
    THEN IF jsonThrows(f.doc)
         THEN UploadResult(FALSE, f.name, <<>>,
                  <<m_FailedJson \o jsonError(f.doc)>>)
         ELSE LET acc == jsonForEach(f.doc.items, 0, NoneYet)
              IN  UploadResult(jsonSuccess(acc), f.name, acc.data, acc.errors)
    ELSE unsupportedFile(f)

(***************************************************************************)
(* src/src/pages/ViewAllPage.tsx: the component set and its handlers.      *)
(***************************************************************************)
\* what `${Date.now()}-${Math.random().toString(36).substr(2, 9)}` can
\* print: two calls print the same text when they fall in the same
\* millisecond and draw the same number
Suffixes == 0..(NumSuffix - 1)

\* `upload-${...}`, `new-${...}`
Id(kind, suffix) == [kind |-> kind, suffix |-> suffix]

\* the records the page starts with (mockComponents)
mockComponents ==
    <<[id |-> Id("mock", 0), towerName |-> Security, appGroup |-> CoreBanking,
       componentType |-> AuthModule, complexity |-> Medium, status |-> Planned,
       year |-> CurrentYear, month |-> CurrentMonth, changeType |-> Enhancement,
       description |-> Empty]>>

\* lines 64-74 and 362-372
emptyForm ==
    [towerName |-> Empty, appGroup |-> Empty, componentType |-> Empty,
     complexity |-> Medium, status |-> Planned, year |-> CurrentYear,
     month |-> CurrentMonth, changeType |-> Enhancement, description |-> Empty]

\* lines 378-388
formOf(component) ==
    [towerName |-> component.towerName, appGroup |-> component.appGroup,
     componentType |-> component.componentType,
     complexity |-> component.complexity, status |-> component.status,
     year |-> component.year, month |-> component.month,
     changeType |-> component.changeType,
     description |-> OrElse(component.description, Empty)]

\* { id, ...fields }: lines 308-321 and 402-407
withId(id, fields) ==
    [id |-> id, towerName |-> fields.towerName, appGroup |-> fields.appGroup,
     componentType |-> fields.componentType, complexity |-> fields.complexity,
     status |-> fields.status, year |-> fields.year, month |-> fields.month,
     changeType |-> fields.changeType,
     description |-> OrElse(fields.description, Empty)]

\* lines 308-321: one new component for each item of results.data;
\* suffixes[i] is what Date.now() and Math.random() gave for item i
newComponents(data, suffixes) ==
    [i \in 1..Len(data) |-> withId(Id("upload", suffixes[i]), data[i])]

\* the number of records an upload of f can add
rowCount(f) ==
    IF f.rows # <<>> THEN Len(f.rows) - 1 ELSE Len(f.doc.items)

\* handleUpload, lines 301-303: up to the await
HandleUploadStart(f) ==
    /\ app = "local"
    /\ ~uploading
    /\ Len(localComponents) + rowCount(f) <= MaxStore
    /\ uploading' = TRUE
    /\ file' = <<f>>
    /\ UNCHANGED <<restVars, app, localComponents, uploadResults, showAddEdit,
                   editingComponent, uploadPageVars, normVars>>

\* line 306
shouldAdd(results) == results.success /\ Len(results.data) > 0

\* handleUpload, lines 303-327: from the await on
HandleUploadResolve ==
    /\ app = "local"
    /\ uploading
    /\ ~unreadable
    /\ LET results == processUploadFile(file[1]) IN
        /\ uploadResults' = <<results>>
        /\ IF shouldAdd(results)
           THEN /\ \E suffixes \in [1..Len(results.data) -> Suffixes] :
                       localComponents' =
                           newComponents(results.data, suffixes)
                               \o localComponents
                /\ currentPage' = 1
           ELSE UNCHANGED <<localComponents, currentPage>>
    /\ uploading' = FALSE
    /\ UNCHANGED <<restNoPager, itemsPerPage, app, file, showAddEdit,
                   editingComponent, uploadPageVars, normVars>>

\* the "Done" button under a successful result, lines 864-869
DoneUpload ==
    /\ app = "local"
    /\ uploadResults # <<>>
    /\ uploadResults[1].success
    /\ uploadResults' = <<>>
    /\ UNCHANGED <<restVars, app, localComponents, uploading, file, showAddEdit,
                   editingComponent, uploadPageVars, normVars>>

\* lines 360-374
OpenAddComponent ==
    /\ app = "local"
    /\ ~showAddEdit
    /\ editingComponent' = <<>>
    /\ showAddEdit' = TRUE
    /\ UNCHANGED <<restVars, app, localComponents, uploading, uploadResults, file,
                   uploadPageVars, normVars>>

\* lines 376-390
OpenEditComponent(i) ==
    /\ app = "local"
    /\ ~showAddEdit
    /\ i \in 1..Len(localComponents)
    /\ editingComponent' = <<localComponents[i]>>
    /\ showAddEdit' = TRUE
    /\ UNCHANGED <<restVars, app, localComponents, uploading, uploadResults, file,
                   uploadPageVars, normVars>>

\* the close buttons of the form, lines 890, 904 and 1015
CloseAddEdit ==
    /\ app = "local"
    /\ showAddEdit
    /\ showAddEdit' = FALSE
    /\ UNCHANGED <<restVars, app, localComponents, uploading, uploadResults, file,
                   editingComponent, uploadPageVars, normVars>>

(***************************************************************************)
(* formData (line 64) is written by the two open handlers and by the       *)
(* onChange handlers of the form's inputs, and read by saveComponent       *)
(* alone.  Its value when the save button is pressed is therefore the      *)
(* form as opened with some inputs changed: edits, a function from the     *)
(* changed inputs to what was typed or selected.                           *)
(***************************************************************************)
\* the form as opened: lines 362-372 and 378-388
openedForm ==
    IF editingComponent # <<>> THEN formOf(editingComponent[1]) ELSE emptyForm

\* setFormData({...formData, [input]: value}), lines 917-1004
typed(form, edits) ==
    [k \in DOMAIN form |-> IF k \in DOMAIN edits THEN edits[k] ELSE form[k]]

\* what the user does to the form: nothing, the three required texts, or
\* these and the two selects (their options are lines 953-955 and 966-968)
RequiredEdits ==
    [towerName |-> Security, appGroup |-> CoreBanking,
     componentType |-> AuthModule]
FormEdits ==
    {<<>>, RequiredEdits}
        \cup {RequiredEdits @@ [complexity |-> c, status |-> s] :
                 c \in {Simple, Complex}, s \in {Released}}

\* the save button is disabled unless the three required inputs are
\* set, line 1022
saveEnabled(form) ==
    ~(Falsy(form.towerName) \/ Falsy(form.appGroup) \/ Falsy(form.componentType))

\* { ...c, ...formData }: line 397
merged(c, form) == withId(c.id, form)

\* lines 395-399
updated(components, editing, form) ==
    [i \in 1..Len(components) |->
        IF components[i].id = editing.id
        THEN merged(components[i], form)
        ELSE components[i]]

\* records waiting in an upload that has not resolved yet
pendingRows == IF uploading THEN rowCount(file[1]) ELSE 0

\* saveComponent, lines 392-414
SaveComponent(edits) ==
    /\ app = "local"
    /\ showAddEdit
    /\ LET formData == typed(openedForm, edits) IN
        /\ saveEnabled(formData)
        /\ IF editingComponent # <<>>
           THEN /\ localComponents' =
                       updated(localComponents, editingComponent[1], formData)
                /\ UNCHANGED currentPage
           ELSE /\ Len(localComponents) + pendingRows < MaxStore
                /\ \E suffix \in Suffixes :
                       localComponents' =
                           <<withId(Id("new", suffix), formData)>>
                               \o localComponents
                /\ currentPage' = 1
    /\ showAddEdit' = FALSE
    /\ editingComponent' = <<>>
    /\ UNCHANGED <<restNoPager, itemsPerPage, app, uploading, uploadResults,
                   file, uploadPageVars, normVars>>

(***************************************************************************)
(* src/frontend/src/pages/UploadPage.tsx: processFile, lines 141-298.      *)
(***************************************************************************)
\* lines 155-165 and 203-213: the raw values, not normalized
rawComponent(row) ==
    [towerName |-> OrElse(At(row, 0), Empty),
     appGroup |-> OrElse(At(row, 1), Empty),
     componentType |-> OrElse(At(row, 2), Empty),
     complexity |-> OrElse(At(row, 3), Medium),
     status |-> OrElse(At(row, 4), Planned),
     year |-> parseIntOr(At(row, 5), CurrentYear),
     month |-> parseIntOr(At(row, 6), CurrentMonth),
     changeType |-> OrElse(At(row, 7), Enhancement),
     description |-> OrElse(At(row, 8), Empty)]

\* lines 253-263
rawItem(item) ==
    [towerName |-> OrElse(Get(item, "towerName"),
                     OrElse(Get(item, "Tower Name"),
                       OrElse(Get(item, "tower_name"), Empty))),
     appGroup |-> OrElse(Get(item, "appGroup"),
                    OrElse(Get(item, "App Group"),
                      OrElse(Get(item, "app_group"), Empty))),
     componentType |-> OrElse(Get(item, "componentType"),
                         OrElse(Get(item, "Component Type"),
                           OrElse(Get(item, "component_type"), Empty))),
     complexity |-> OrElse(Get(item, "complexity"),
                      OrElse(Get(item, "Complexity"), Medium)),
     status |-> OrElse(Get(item, "status"),
                  OrElse(Get(item, "Status"), Planned)),
     year |-> parseIntOr(OrElse(Get(item, "year"), Get(item, "Year")),
                         CurrentYear),
     month |-> parseIntOr(OrElse(Get(item, "month"), Get(item, "Month")),
                          CurrentMonth),
     changeType |-> OrElse(Get(item, "changeType"),
                      OrElse(Get(item, "Change Type"),
                        OrElse(Get(item, "change_type"), Enhancement))),
     description |-> OrElse(Get(item, "description"),
                       OrElse(Get(item, "Description"), Empty))]

\* lines 168, 216 and 266
hasRequired(component) ==
    ~Falsy(component.towerName) /\ ~Falsy(component.appGroup)
        /\ ~Falsy(component.componentType)

\* `Row ${index + 2}`, lines 171 and 219
fileRowNumber(index) == index + 2

RECURSIVE rowsForEach(_, _, _, _)
\* lines 152-174 (minLength = 2) and 200-222 (minLength = 1)
rowsForEach(rows, index, minLength, acc) ==
    IF index >= Len(rows) THEN acc
    ELSE LET row == rows[index + 1]
             component == rawComponent(row)
         IN  rowsForEach(rows, index + 1, minLength,
                 IF Len(row) >= minLength
                 THEN IF hasRequired(component)
                      THEN [acc EXCEPT !.data = Append(@, component)]
                      ELSE [acc EXCEPT !.errors = Append(@,
                              m_Row \o toString(fileRowNumber(index)) \o m_MissingNamed)]
                 ELSE acc)

RECURSIVE itemsForEach(_, _, _)
\* lines 251-271
itemsForEach(items, index, acc) ==
    IF index >= Len(items) THEN acc
    ELSE LET component == rawItem(items[index + 1])
         IN  itemsForEach(items, index + 1,
                 IF hasRequired(component)
                 THEN [acc EXCEPT !.data = Append(@, component)]
                 ELSE [acc EXCEPT !.errors = Append(@,
                         m_Item \o toString(index + 1) \o m_MissingNamed)])

\* lines 177, 225 and 274
anyData(acc) == Len(acc.data) > 0

\* lines 243-288: JSON.parse throws, or item.towerName of null throws
itemsThrow(doc) ==
    doc.kind = "invalid" \/ \E i \in 1..Len(doc.items) : isNull(doc.items[i])

processFile(f) ==
    IF fileType(f) = s_csv
    THEN LET acc == rowsForEach(slice1(f.rows), 0, 2, NoneYet)
         IN  UploadResult(anyData(acc), f.name, acc.data, acc.errors)
    ELSE IF fileType(f) \in {s_xlsx, s_xls}
    THEN LET acc == rowsForEach(slice1(f.rows), 0, 1, NoneYet)
         IN  UploadResult(anyData(acc), f.name, acc.data, acc.errors)
    ELSE IF fileType(f) = s_json
    THEN IF itemsThrow(f.doc)
         THEN UploadResult(FALSE, f.name, <<>>,
                  <<m_FailedJsonFile \o jsonError(f.doc)>>)
         ELSE LET acc == itemsForEach(f.doc.items, 0, NoneYet)
              IN  UploadResult(anyData(acc), f.name, acc.data, acc.errors)
    ELSE UploadResult(FALSE, f.name, <<>>,
             <<m_UnsupportedFileType \o m_UploadCsvExcelJson>>)

\* handleDrop and handleFileInput, lines 310-334: up to the await.  The
\* results modal covers the page while it is open (UploadResultsModal.tsx,
\* line 55), so a file is given only when it is closed.
ProcessFileStart(f) ==
    /\ app = "frontend"
    /\ ~up_uploading
    /\ ~showUploadResultsModal
    /\ up_uploading' = TRUE
    /\ up_file' = <<f>>
    /\ UNCHANGED <<restVars, app, localVars, up_uploadResults, showUploadResultsModal,
                   saving, request, notification, backend, normVars>>

\* handleDrop and handleFileInput: from the await on
ProcessFileResolve ==
    /\ app = "frontend"
    /\ up_uploading
    /\ ~unreadable
    /\ up_uploadResults' = <<processFile(up_file[1])>>
    /\ showUploadResultsModal' = TRUE
    /\ up_uploading' = FALSE
    /\ UNCHANGED <<restVars, app, localVars, up_file, saving, request, notification,
                   backend, normVars>>

\* onClose of the results modal, lines 754-757
CloseUploadResultsModal ==
    /\ app = "frontend"
    /\ showUploadResultsModal
    /\ showUploadResultsModal' = FALSE
    /\ up_uploadResults' = <<>>
    /\ UNCHANGED <<restVars, app, localVars, up_uploading, up_file, saving, request,
                   notification, backend, normVars>>

(***************************************************************************)
(* The backend behind POST /api/upload: Record Validator and Ingestion     *)
(* Pipeline of the specification (sections 4.3 and 4.4).  It validates     *)
(* and normalizes each record it is sent and creates the usable ones       *)
(* under identifiers of its own.                                           *)
(***************************************************************************)
backendAccepts(raw) ==
    /\ trim(raw.towerName) # Empty
    /\ trim(raw.appGroup) # Empty
    /\ trim(raw.componentType) # Empty

\* the normalizer of the backend never fails: what is not in the table,
\* a value that is not a string included, gives the default
backendNormalize(mapped, default) ==
    IF mapped = TypeErrorThrown THEN default ELSE mapped

RECURSIVE backendIngest(_, _)
backendIngest(store, data) ==
    IF data = <<>> THEN store
    ELSE backendIngest(
             IF backendAccepts(Head(data))
             THEN Append(store,
                      withId(Id("server", Len(store) + 1),
                             [Head(data) EXCEPT
                                 !.complexity =
                                     backendNormalize(mapComplexity(@), Medium),
                                 !.status =
                                     backendNormalize(mapStatus(@), Planned)]))
             ELSE store,
             Tail(data))

\* UploadResultsModal.tsx, line 47: the modal offers the save button
isSuccess(results) == results.success /\ Len(results.data) > 0

\* the save button of the modal (UploadResultsModal.tsx, lines 403-408)
\* calls saveToDatabase and then onClose; saveToDatabase, lines 337-347,
\* runs up to the await with the results it was rendered with
SaveToDatabaseStart ==
    /\ app = "frontend"
    /\ showUploadResultsModal
    /\ ~saving
    /\ up_uploadResults # <<>>
    /\ isSuccess(up_uploadResults[1])
    /\ up_uploadResults[1].success
    /\ Len(backend) + Len(up_uploadResults[1].data) <= MaxStore
    /\ saving' = TRUE
    /\ request' = <<up_uploadResults[1].data>>
    /\ showUploadResultsModal' = FALSE
    /\ up_uploadResults' = <<>>
    /\ UNCHANGED <<restVars, app, localVars, up_uploading, up_file, notification,
                   backend, normVars>>

\* saveToDatabase, lines 347-376: from the await on; the request either
\* comes back with the backend's answer or fails
SaveToDatabaseResolve(answered) ==
    /\ app = "frontend"
    /\ saving
    /\ LET stored == backendIngest(backend, request[1]) IN
        IF answered
        THEN /\ backend' = stored
             /\ notification' =
                    IF Len(stored) > Len(backend) THEN "success" ELSE "error"
        ELSE /\ backend' = backend
             /\ notification' = "error"
    /\ saving' = FALSE
    /\ request' = <<>>
    /\ UNCHANGED <<restVars, app, localVars, up_uploading, up_uploadResults, up_file,
                   showUploadResultsModal, normVars>>


(***************************************************************************)
(* The normalizer on its own, over raw strings in several casings and      *)
(* with white space around them.                                           *)
(***************************************************************************)
s_lowx == <<"l", "o", "w", "x">>
s_l_ow == <<"l", " ", "o", "w">>
s_unknown == <<"n", "/", "a">>
Words ==
    SimpleCases \cup ComplexCases \cup MediumCases \cup ReleasedCases
        \cup InDevelopmentCases \cup PlannedCases
        \cup {Empty, s_lowx, s_l_ow, s_unknown}
capitalized(w) ==
    IF w = <<>> THEN w ELSE toUpperCase(<<Head(w)>>) \o Tail(w)
Paddings == {<<>>, <<" ">>, <<"\t">>, <<" ", " ">>}
RawValues ==
    {Undefined, NumberThree} \cup Complexities \cup Statuses \cup
    {l \o c \o r :
        l \in Paddings, r \in Paddings,
        c \in UNION {{w, toUpperCase(w), capitalized(w)} : w \in Words}}

MapComplexity ==
    /\ app = "norm"
    /\ normComplexity = <<>>
    /\ normComplexity' = <<mapComplexity(normValue)>>
    /\ UNCHANGED <<restVars, app, localVars, uploadPageVars, normValue, normStatus>>

MapStatus ==
    /\ app = "norm"
    /\ normStatus = <<>>
    /\ normStatus' = <<mapStatus(normValue)>>
    /\ UNCHANGED <<restVars, app, localVars, uploadPageVars, normValue, normComplexity>>

(***************************************************************************)
(* src/src/pages/ViewAllPage.tsx: selection and export, lines 111-157.     *)
(***************************************************************************)
\* Array.prototype.slice(start, end): an index below zero counts from
\* the end
slice(s, start, end) ==
    LET at(k) == IF k < 0 THEN IF Len(s) + k < 0 THEN 0 ELSE Len(s) + k
                 ELSE IF k > Len(s) THEN Len(s) ELSE k
    IN  SubSeq(s, at(start) + 1, at(end))

\* Math.ceil(length / perPage), for perPage > 0
pagesOf(length, perPage) == (length + perPage - 1) \div perPage

\* lines 100-102; the sort of lines 80-96 orders the records, and a page
\* that holds them all holds them in any order
totalPages == pagesOf(Len(localComponents), itemsPerPage)
startIndex == (currentPage - 1) * itemsPerPage
paginatedComponents ==
    slice(localComponents, startIndex, startIndex + itemsPerPage)
idsOf(components) == {components[i].id : i \in 1..Len(components)}

\* lines 111-121
HandleSelectRow(id) ==
    /\ app = "local"
    /\ id \in idsOf(paginatedComponents)
    /\ selectedRows' =
           IF id \in selectedRows THEN selectedRows \ {id}
           ELSE selectedRows \cup {id}
    /\ UNCHANGED <<exceptSelect, download>>

\* lines 123-129
HandleSelectAll ==
    /\ app = "local"
    /\ paginatedComponents # <<>>
    /\ selectedRows' =
           IF Cardinality(selectedRows) = Len(paginatedComponents) THEN {}
           ELSE idsOf(paginatedComponents)
    /\ UNCHANGED <<exceptSelect, download>>

\* an identifier as join prints it: `upload-...`, `new-...`; the kind
\* stands for its letters
idText(id) == <<id.kind, "-">> \o toString(id.suffix)

\* localComponents.filter(c => selectedRows.has(c.id)), line 132
selectedOf(components, ids) ==
    LET has(c) == c.id \in ids IN SelectSeq(components, has)

RECURSIVE join(_, _)
\* cells.join(sep)
join(cells, sep) ==
    IF cells = <<>> THEN <<>>
    ELSE IF Len(cells) = 1 THEN cells[1]
    ELSE cells[1] \o sep \o join(Tail(cells), sep)

\* line 135
exportHeader ==
    <<<<"I", "D">>, <<"T", "o", "w", "e", "r">>, s_AppGroup, s_ComponentType,
      <<"C", "o", "m", "p", "l", "e", "x", "i", "t", "y">>,
      <<"S", "t", "a", "t", "u", "s">>, <<"Y", "e", "a", "r">>,
      <<"M", "o", "n", "t", "h">>,
      <<"D", "e", "s", "c", "r", "i", "p", "t", "i", "o", "n">>>>
\* lines 137-147
exportLine(c) ==
    join(<<idText(c.id), c.towerName, c.appGroup, c.componentType,
           c.complexity, c.status, toString(c.year), toString(c.month),
           <<"\"">> \o OrElse(c.description, Empty) \o <<"\"">>>>, <<",">>)
\* lines 133-148: the lines of the text, which join('\n') puts together
exportLines(components, ids) ==
    LET selectedComponents == selectedOf(components, ids) IN
    <<join(exportHeader, <<",">>)>>
        \o [i \in 1..Len(selectedComponents) |->
               exportLine(selectedComponents[i])]

RECURSIVE unescape(_)
\* "" inside a quoted field is one quote
unescape(s) ==
    IF Len(s) < 2 THEN s
    ELSE IF s[1] = "\"" /\ s[2] = "\"" THEN <<"\"">> \o unescape(Tail(Tail(s)))
    ELSE <<Head(s)>> \o unescape(Tail(s))

\* Papa.parse on one line (line 220): the commas outside quotes part the
\* fields, and a field inside quotes is read without them
parseFields(s) ==
    LET quoted(i) == Cardinality({j \in 1..(i - 1) : s[j] = "\""}) % 2 = 1
        commas == {i \in 1..Len(s) : s[i] = "," /\ ~quoted(i)}
        nth(k) == CHOOSE i \in commas :
                      Cardinality({j \in commas : j < i}) = k - 1
        n == Cardinality(commas)
        first(k) == IF k = 1 THEN 1 ELSE nth(k - 1) + 1
        last(k) == IF k = n + 1 THEN Len(s) ELSE nth(k) - 1
        field(k) == SubSeq(s, first(k), last(k))
        unquote(f) ==
            IF Len(f) >= 2 /\ f[1] = "\"" /\ f[Len(f)] = "\""
            THEN unescape(SubSeq(f, 2, Len(f) - 1))
            ELSE f
    IN  [k \in 1..(n + 1) |-> unquote(field(k))]

\* the file of these lines as the upload reads it
csvFileOf(lines) ==
    CsvFile(s_csv, [i \in 1..Len(lines) |-> parseFields(lines[i])])

\* exportSelected, lines 131-157; its button is disabled while nothing
\* is selected (line 529)
ExportSelected ==
    /\ app = "local"
    /\ selectedRows # {}
    /\ download' = <<csvFileOf(exportLines(localComponents, selectedRows))>>
    /\ UNCHANGED <<exceptSelect, selectedRows>>

IdleSelect ==
    /\ selectedRows = {}
    /\ download = <<>>
    /\ currentPage = 1
    /\ itemsPerPage = 10

(***************************************************************************)
(* src/src/pages/ViewAllPage.tsx: SearchPage, lines 1055-1147.             *)
(***************************************************************************)
\* s.includes(sub); on an absent s the optional chain gives undefined
includes(s, sub) ==
    /\ s # Undefined
    /\ \E i \in 0..(Len(s) - Len(sub)) : SubSeq(s, i + 1, i + Len(sub)) = sub

monthNames ==
    <<<<"J", "a", "n">>, <<"F", "e", "b">>, <<"M", "a", "r">>,
      <<"A", "p", "r">>, <<"M", "a", "y">>, <<"J", "u", "n">>,
      <<"J", "u", "l">>, <<"A", "u", "g">>, <<"S", "e", "p">>,
      <<"O", "c", "t">>, <<"N", "o", "v">>, <<"D", "e", "c">>>>
\* lines 1078-1082
getMonthName(month) ==
    IF month \in 1..Len(monthNames) THEN monthNames[month] ELSE Empty

\* lines 1059-1066 and 1138-1145
defaultFilters ==
    [towerName |-> Empty, appGroup |-> Empty, complexity |-> {},
     status |-> {}, yearRange |-> [start |-> 2024, end |-> 2025],
     monthRange |-> [start |-> 1, end |-> 12]]

\* n || fallback on a number: 0 is falsy
NumberOr(n, fallback) == IF n = 0 THEN fallback ELSE n

\* the callback of mockComponents.filter, lines 1086-1134
searchMatches(component, query, f) ==
    LET searchLower == toLowerCase(query)
        textMatch ==
            \/ includes(toLowerCase(component.towerName), searchLower)
            \/ includes(toLowerCase(component.appGroup), searchLower)
            \/ includes(toLowerCase(component.componentType), searchLower)
            \/ /\ component.description # Undefined
               /\ includes(toLowerCase(component.description), searchLower)
        yearMatch == toString(component.year) = trim(query)
        monthNumber == parseInt(trim(query))
        monthNameMatch ==
            includes(toLowerCase(getMonthName(component.month)), searchLower)
        monthNumberMatch ==
            ~monthNumber.nan /\ component.month = monthNumber.val
        matchesSearch ==
            IF Falsy(query) THEN TRUE
            ELSE textMatch \/ yearMatch \/ monthNameMatch \/ monthNumberMatch
        matchesTower ==
            Falsy(f.towerName) \/ component.towerName = f.towerName
        matchesAppGroup ==
            Falsy(f.appGroup) \/ component.appGroup = f.appGroup
        matchesComplexity ==
            f.complexity = {} \/ component.complexity \in f.complexity
        matchesStatus == f.status = {} \/ component.status \in f.status
        matchesYear ==
            /\ component.year >= NumberOr(f.yearRange.start, 2024)
            /\ component.year <= NumberOr(f.yearRange.end, 2025)
        matchesMonth ==
            /\ component.month >= NumberOr(f.monthRange.start, 1)
            /\ component.month <= NumberOr(f.monthRange.end, 12)
    IN  /\ matchesSearch /\ matchesTower /\ matchesAppGroup
        /\ matchesComplexity /\ matchesStatus /\ matchesYear /\ matchesMonth

\* lines 1085-1135
filteredComponents ==
    LET keep(component) == searchMatches(component, searchQuery, filters)
    IN  SelectSeq(catalog, keep)

\* the records of an earlier year and of this one
archiveComponents ==
    <<[id |-> Id("mock", 1), towerName |-> Security, appGroup |-> CoreBanking,
       componentType |-> AuthModule, complexity |-> Simple,
       status |-> Released, year |-> 2023, month |-> 3,
       changeType |-> Enhancement, description |-> s_desc],
      [id |-> Id("mock", 2), towerName |-> Type, appGroup |-> AppGroup,
       componentType |-> Type, complexity |-> Complex, status |-> Planned,
       year |-> 2024, month |-> 1, changeType |-> Enhancement,
       description |-> Undefined]>>
Catalogs == {mockComponents, mockComponents \o archiveComponents}

\* what is typed in the search box: nothing, a year, a month name, a
\* month number, a word in another casing
SearchQueries ==
    {Empty, s_2024, <<"j", "u", "l">>, s_3, <<"S", "E", "C">>}

\* line 1214
SetSearchQuery(q) ==
    /\ app = "search"
    /\ searchQuery' = q
    /\ UNCHANGED <<exceptSearch, catalog, filters>>

\* the options of the two selects, lines 1071-1072 and 1308-1312
towersOf(components) ==
    {components[i].towerName : i \in 1..Len(components)}
appGroupsOf(components) ==
    {components[i].appGroup : i \in 1..Len(components)}

\* line 1306
SetTowerName(t) ==
    /\ app = "search"
    /\ filters' = [filters EXCEPT !.towerName = t]
    /\ UNCHANGED <<exceptSearch, catalog, searchQuery>>

\* line 1329
SetAppGroup(g) ==
    /\ app = "search"
    /\ filters' = [filters EXCEPT !.appGroup = g]
    /\ UNCHANGED <<exceptSearch, catalog, searchQuery>>

\* a box is ticked or cleared
toggled(current, value) ==
    IF value \in current THEN current \ {value} ELSE current \cup {value}

\* lines 1354-1360
ToggleComplexity(c) ==
    /\ app = "search"
    /\ filters' = [filters EXCEPT !.complexity = toggled(@, c)]
    /\ UNCHANGED <<exceptSearch, catalog, searchQuery>>

\* lines 1386-1392
ToggleStatus(s) ==
    /\ app = "search"
    /\ filters' = [filters EXCEPT !.status = toggled(@, s)]
    /\ UNCHANGED <<exceptSearch, catalog, searchQuery>>

\* clearFilters, lines 1137-1147
ClearFilters ==
    /\ app = "search"
    /\ filters' = defaultFilters
    /\ searchQuery' = Empty
    /\ UNCHANGED <<exceptSearch, catalog>>

IdleSearch ==
    /\ catalog = mockComponents
    /\ searchQuery = Empty
    /\ filters = defaultFilters

(***************************************************************************)
(* The backend-backed list page: src/unnamed/part_005 (DataProvider),      *)
(* src/frontend/src/services/api.ts and                                    *)
(* src/frontend/src/pages/ViewAllPage.tsx.                                 *)
(***************************************************************************)
\* the identifiers the store hands out
ListIds == 1..(MaxStore + 1)

\* the record of the store under an identifier (Component of api.ts,
\* lines 8-21, the fields the list page reads)
apiComponent(id) ==
    [id |-> id,
     name |-> IF id % 2 = 1 THEN AuthModule ELSE Type,
     tower |-> IF id <= 2 THEN Security ELSE CoreBanking,
     status |-> IF id % 2 = 1 THEN Released ELSE Planned,
     complexity |-> IF id = 1 THEN Simple ELSE Medium,
     description |-> IF id = 1 THEN s_desc
                     ELSE IF id = 2 THEN Undefined ELSE Empty]

RECURSIVE listed(_)
\* GET /api/components without filters: the records of the store, by
\* identifier
listed(store) ==
    IF store = {} THEN <<>>
    ELSE LET first == CHOOSE c \in store : \A d \in store : c.id <= d.id
         IN  <<first>> \o listed(store \ {first})

\* refreshData, lines 25-29: up to the await
RefreshStart ==
    /\ app = "list"
    /\ ~loading
    /\ loading' = TRUE
    /\ error' = <<>>
    /\ UNCHANGED <<exceptList, pageVars, server, ctx_components, filterVars, pickVars,
                   socketVars>>

\* refreshData, lines 29-40: the request is answered, or fails
RefreshResolve(answered) ==
    /\ app = "list"
    /\ loading
    /\ IF answered
       THEN ctx_components' = listed(server) /\ UNCHANGED error
       ELSE /\ error' = <<"F", "a", "i", "l", "e", "d">>
            /\ UNCHANGED ctx_components
    /\ loading' = FALSE
    /\ UNCHANGED <<exceptList, pageVars, server, filterVars, pickVars, socketVars>>

\* the callback of components.filter, lines 60-70
listMatches(component) ==
    LET matchesSearch ==
            \/ Falsy(searchTerm)
            \/ includes(toLowerCase(component.name), toLowerCase(searchTerm))
            \/ /\ component.description # Undefined
               /\ includes(toLowerCase(component.description),
                           toLowerCase(searchTerm))
        matchesTower ==
            Falsy(selectedTower) \/ component.tower = selectedTower
        matchesStatus ==
            Falsy(selectedStatus) \/ component.status = selectedStatus
        matchesComplexity ==
            \/ Falsy(selectedComplexity)
            \/ component.complexity = selectedComplexity
    IN  matchesSearch /\ matchesTower /\ matchesStatus /\ matchesComplexity

\* lines 59-71; the sort that follows orders them and drops none
filtered == SelectSeq(ctx_components, listMatches)

\* what is typed in the search box of the list
SearchTerms == {Empty, <<"A", "U", "T", "H">>, s_desc}

\* line 382
SetSearchTerm(t) ==
    /\ app = "list"
    /\ searchTerm' = t
    /\ UNCHANGED <<exceptList, pageVars, dataVars, selectedTower, selectedStatus,
                   selectedComplexity, pickVars, socketVars>>

\* the options of the three selects, lines 305-307
optionsOf(field) ==
    {Empty} \cup ({ctx_components[i][field] : i \in 1..Len(ctx_components)}
                      \ {Undefined})

\* line 454
SetSelectedTower(t) ==
    /\ app = "list"
    /\ selectedTower' = t
    /\ UNCHANGED <<exceptList, pageVars, dataVars, searchTerm, selectedStatus,
                   selectedComplexity, pickVars, socketVars>>

\* line 472
SetSelectedStatus(s) ==
    /\ app = "list"
    /\ selectedStatus' = s
    /\ UNCHANGED <<exceptList, pageVars, dataVars, searchTerm, selectedTower,
                   selectedComplexity, pickVars, socketVars>>

\* line 490
SetSelectedComplexity(c) ==
    /\ app = "list"
    /\ selectedComplexity' = c
    /\ UNCHANGED <<exceptList, pageVars, dataVars, searchTerm, selectedTower,
                   selectedStatus, pickVars, socketVars>>

\* line 49
list_itemsPerPage == 10
\* lines 114-116
list_totalPages == pagesOf(Len(filtered), list_itemsPerPage)
list_startIndex == (list_currentPage - 1) * list_itemsPerPage
list_paginatedComponents ==
    slice(filtered, list_startIndex, list_startIndex + list_itemsPerPage)

\* String(c.id || ''), lines 142 and 565
rowKey(c) == toString(c.id)

\* handleSelectRow, lines 128-136, of a row of the table (line 565)
ListSelectRow(c) ==
    /\ app = "list"
    /\ list_selectedRows' = toggled(list_selectedRows, rowKey(c))
    /\ UNCHANGED <<exceptList, pageVars, dataVars, filterVars, list_download, alerted,
                   socketVars>>

\* what handleSelectAll sets, lines 139-143
list_handleSelectAll ==
    IF Cardinality(list_selectedRows) = Len(list_paginatedComponents)
    THEN {}
    ELSE {rowKey(list_paginatedComponents[i]) :
              i \in 1..Len(list_paginatedComponents)}

\* handleSelectAll, lines 138-144
ListSelectAll ==
    /\ app = "list"
    /\ list_selectedRows' = list_handleSelectAll
    /\ UNCHANGED <<exceptList, pageVars, dataVars, filterVars, list_download, alerted,
                   socketVars>>

\* GET /api/export (api.ts lines 193-201): the request names no record
\* and no filter, and the answer holds the records of the store
exportComponents == listed(server)

\* exportSelected, lines 146-152, and exportData, part_005 lines 134-148
ListExportSelected(answered) ==
    /\ app = "list"
    /\ IF answered
       THEN list_download' = <<exportComponents>> /\ UNCHANGED error
       ELSE /\ error' = <<"E", "x", "p", "o", "r", "t">>
            /\ UNCHANGED list_download
    /\ UNCHANGED <<exceptList, pageVars, server, ctx_components, loading, filterVars,
                   list_selectedRows, alerted, socketVars>>

\* what DataProvider hands to useData, part_005 lines 180-191
contextValue ==
    {"components", "loading", "error", "refreshData", "addComponent",
     "updateComponent", "deleteComponent", "uploadFile", "exportData",
     "searchComponents"}

\* line 165: the selected keys that parse as numbers
componentIds(keys) ==
    {parseInt(k).val : k \in {key \in keys : ~parseInt(key).nan}}

\* POST /api/components/batch-delete (api.ts lines 146-157): the store
\* drops the records named and counts them in data.deletedCount
batchDelete(store, ids) ==
    LET deleted == {c \in store : c.id \in ids}
    IN  [store |-> store \ deleted, success |-> TRUE,
         data |-> [deletedCount |-> Cardinality(deleted)]]

\* handleBatchDelete, lines 155-180, with the answer to window.confirm;
\* its button shows only while rows are selected (line 432).  useData
\* gives no batchDeleteComponents (line 39), so the call of line 166
\* throws a TypeError, which line 176 catches
HandleBatchDelete(confirmed) ==
    /\ app = "list"
    /\ list_selectedRows # {}
    /\ IF ~confirmed
       THEN UNCHANGED <<server, list_selectedRows, alerted, list_currentPage>>
       ELSE IF "batchDeleteComponents" \in contextValue
       THEN LET result ==
                    batchDelete(server, componentIds(list_selectedRows))
            IN  /\ server' = result.store
                /\ alerted' =
                       [kind |-> "deleted",
                        count |-> IF "deletedCount" \in DOMAIN result
                                  THEN NumberOr(result.deletedCount,
                                           Cardinality(list_selectedRows))
                                  ELSE Cardinality(list_selectedRows)]
                /\ list_selectedRows' = {}
                /\ list_currentPage' = 1
       ELSE /\ alerted' = [kind |-> "error", count |-> 0]
            /\ UNCHANGED <<server, list_selectedRows, list_currentPage>>
    /\ UNCHANGED <<exceptList, ctx_components, loading, error, filterVars,
                   list_download, socketVars>>

(***************************************************************************)
(* The pagers of the two list pages.                                       *)
(***************************************************************************)
\* the page a button of the pager sets: first, previous, next, last
\* (local lines 678-730, list page lines 646-698)
pagerTarget(button, page, pages) ==
    CASE button = "first" -> 1
      [] button = "previous" -> IF page - 1 > 1 THEN page - 1 ELSE 1
      [] button = "next" -> IF pages < page + 1 THEN pages ELSE page + 1
      [] button = "last" -> pages
\* disabled={currentPage === 1} and disabled={currentPage === totalPages}
pagerDisabled(button, page, pages) ==
    IF button \in {"first", "previous"} THEN page = 1 ELSE page = pages
PagerButtons == {"first", "previous", "next", "last"}

\* the numbered buttons, local lines 694-716 and list page lines 662-684
pageNumbers(page, pages) ==
    {IF pages <= 5 THEN i + 1
     ELSE IF page <= 3 THEN i + 1
     ELSE IF page >= pages - 2 THEN pages - 4 + i
     ELSE page - 2 + i : i \in 0..((IF pages < 5 THEN pages ELSE 5) - 1)}

\* src/src/pages/ViewAllPage.tsx lines 678-730
SetCurrentPage(button) ==
    /\ app = "local"
    /\ ~pagerDisabled(button, currentPage, totalPages)
    /\ currentPage' = pagerTarget(button, currentPage, totalPages)
    /\ UNCHANGED <<exceptPager, itemsPerPage>>

\* lines 708-711
SetPageNumber(pageNum) ==
    /\ app = "local"
    /\ currentPage' = pageNum
    /\ UNCHANGED <<exceptPager, itemsPerPage>>

\* lines 513-524
SetItemsPerPage(n) ==
    /\ app = "local"
    /\ itemsPerPage' = n
    /\ currentPage' = 1
    /\ UNCHANGED exceptPager

\* the list page shows its table once the data have loaded, lines 309-331
listShown == ~loading /\ error = <<>>

\* src/frontend/src/pages/ViewAllPage.tsx lines 646-698
ListSetCurrentPage(button) ==
    /\ app = "list"
    /\ listShown
    /\ ~pagerDisabled(button, list_currentPage, list_totalPages)
    /\ list_currentPage' =
           pagerTarget(button, list_currentPage, list_totalPages)
    /\ UNCHANGED <<exceptList, dataVars, filterVars, pickVars, socketVars>>

\* lines 676-679
ListSetPageNumber(pageNum) ==
    /\ app = "list"
    /\ listShown
    /\ list_currentPage' = pageNum
    /\ UNCHANGED <<exceptList, dataVars, filterVars, pickVars, socketVars>>

(***************************************************************************)
(* Other users of the backend, and src/unnamed/part_011                    *)
(* (WebSocketProvider).                                                    *)
(***************************************************************************)
\* component_update messages the backend sends in one run of the model
MaxEvents == 2

ComponentUpdate(action, component) ==
    [action |-> action, component |-> component]

\* the Change Broadcaster: one component_update to the socket of every
\* other client that is connected
emitted(update) ==
    IF isConnected /\ Len(broadcast) < MaxEvents
    THEN /\ broadcast' = Append(broadcast, update)
         /\ socketQueue' = Append(socketQueue, update)
    ELSE UNCHANGED <<broadcast, socketQueue>>

\* another client creates a component
OtherCreate(id) ==
    /\ app = "list"
    /\ ~isConnected \/ Len(broadcast) < MaxEvents
    /\ Cardinality(server) < MaxStore
    /\ \A c \in server : c.id # id
    /\ server' = server \cup {apiComponent(id)}
    /\ emitted(ComponentUpdate("create", apiComponent(id)))
    /\ UNCHANGED <<exceptList, pageVars, ctx_components, loading, error, filterVars,
                   pickVars, isConnected, windowEvents>>

\* another client deletes a component
OtherDelete(id) ==
    /\ app = "list"
    /\ ~isConnected \/ Len(broadcast) < MaxEvents
    /\ apiComponent(id) \in server
    /\ server' = server \ {apiComponent(id)}
    /\ emitted(ComponentUpdate("delete", apiComponent(id)))
    /\ UNCHANGED <<exceptList, pageVars, ctx_components, loading, error, filterVars,
                   pickVars, isConnected, windowEvents>>

\* lines 59-62
OnConnect ==
    /\ app = "list"
    /\ ~isConnected
    /\ isConnected' = TRUE
    /\ UNCHANGED <<exceptList, pageVars, dataVars, filterVars, pickVars, broadcast,
                   socketQueue, windowEvents>>

\* lines 64-67: what was not delivered is lost with the connection
OnDisconnect ==
    /\ app = "list"
    /\ isConnected
    /\ isConnected' = FALSE
    /\ socketQueue' = <<>>
    /\ UNCHANGED <<exceptList, pageVars, dataVars, filterVars, pickVars, broadcast,
                   windowEvents>>

\* the listeners of window for an event type: component_update has
\* none in DataProvider nor anywhere else
listeners(type) == {}

\* window.dispatchEvent(new CustomEvent('component_update', ...)), twice
dispatchEvent_twice(events, update) == Append(Append(events, update), update)
\* line 96
dispatchEvent(events, update) == Append(events, update)

\* lines 93-97: the socket delivers a component_update
OnComponentUpdate ==
    /\ app = "list"
    /\ socketQueue # <<>>
    /\ windowEvents' = dispatchEvent(windowEvents, Head(socketQueue))
    /\ socketQueue' = Tail(socketQueue)
    /\ IF "refreshData" \in listeners("component_update") /\ ~loading
       THEN loading' = TRUE /\ error' = <<>>
       ELSE UNCHANGED <<loading, error>>
    /\ UNCHANGED <<exceptList, pageVars, server, ctx_components, filterVars, pickVars,
                   isConnected, broadcast>>

IdleList ==
    /\ server = {}
    /\ ctx_components = <<>>
    /\ loading = TRUE
    /\ error = <<>>
    /\ searchTerm = Empty
    /\ selectedTower = Empty
    /\ selectedStatus = Empty
    /\ selectedComplexity = Empty
    /\ list_selectedRows = {}
    /\ list_download = <<>>
    /\ alerted = [kind |-> "none", count |-> 0]
    /\ isConnected = FALSE
    /\ broadcast = <<>>
    /\ socketQueue = <<>>
    /\ windowEvents = <<>>
    /\ list_currentPage = 1

(***************************************************************************)
(* src/src/context/ThemeContext.tsx and src/unnamed/part_006:              *)
(* ThemeProvider, lines 67-88.                                             *)
(***************************************************************************)
Themes == {"light", "dark"}

\* toggleTheme between two mounts, as many times as the model follows
MaxToggles == 4

\* the theme of the system, whatever was saved
initialTheme_systemOnly(saved, dark) == IF dark THEN "dark" ELSE "light"
\* lines 71-78: the saved theme, or else the one the system prefers
initialTheme(saved, dark) ==
    IF saved # "none" THEN saved ELSE IF dark THEN "dark" ELSE "light"

\* the first effect, lines 70-79
LoadEffect ==
    /\ app = "theme"
    /\ pendingEffects # <<>> /\ Head(pendingEffects) = "load"
    /\ nextTheme' = initialTheme(storedTheme, prefersDark)
    /\ pendingEffects' = Tail(pendingEffects)
    /\ UNCHANGED <<exceptTheme, theme, storedTheme, dataTheme, prefersDark,
                   savedTheme, toggles>>

\* the second effect, lines 81-84, with the theme of the render it
\* belongs to
SaveEffect ==
    /\ app = "theme"
    /\ pendingEffects # <<>> /\ Head(pendingEffects) = "save"
    /\ storedTheme' = theme
    /\ dataTheme' = theme
    /\ pendingEffects' = Tail(pendingEffects)
    /\ UNCHANGED <<exceptTheme, theme, nextTheme, prefersDark, savedTheme,
                   toggles>>

\* React renders the queued state; the second effect depends on theme
\* (line 84) and runs again when it changed
Rerender ==
    /\ app = "theme"
    /\ pendingEffects = <<>>
    /\ nextTheme # "none"
    /\ theme' = nextTheme
    /\ nextTheme' = "none"
    /\ pendingEffects' = IF nextTheme # theme THEN <<"save">> ELSE <<>>
    /\ UNCHANGED <<exceptTheme, storedTheme, dataTheme, prefersDark,
                   savedTheme, toggles>>

\* toggleTheme, lines 86-88: the update reads the latest queued state
ToggleTheme ==
    /\ app = "theme"
    /\ pendingEffects = <<>>
    /\ toggles < MaxToggles
    /\ nextTheme' = LET prev == IF nextTheme # "none" THEN nextTheme
                                ELSE theme
                    IN  IF prev = "light" THEN "dark" ELSE "light"
    /\ toggles' = toggles + 1
    /\ UNCHANGED <<exceptTheme, theme, pendingEffects, storedTheme,
                   dataTheme, prefersDark, savedTheme>>

\* the page is closed and opened again: the provider mounts with
\* useState('light') (line 68) and both effects to run; storage stays
Remount(dark) ==
    /\ app = "theme"
    /\ theme' = "light"
    /\ nextTheme' = "none"
    /\ pendingEffects' = <<"load", "save">>
    /\ dataTheme' = "none"
    /\ prefersDark' = dark
    /\ savedTheme' = storedTheme
    /\ toggles' = 0
    /\ UNCHANGED <<exceptTheme, storedTheme>>

IdleTheme ==
    /\ theme = "light"
    /\ nextTheme = "none"
    /\ pendingEffects = <<"load", "save">>
    /\ storedTheme = "none"
    /\ dataTheme = "none"
    /\ prefersDark = FALSE
    /\ savedTheme = "none"
    /\ toggles = 0

(***************************************************************************)
(* Specifications.                                                         *)
(***************************************************************************)
\* src/unnamed/part_005 with no call under way
IdleCalls ==
    /\ requests = <<>>
    /\ returned = [call |-> "none", outcome |-> "none", value |-> "none"]
    /\ calls = 0
\* src/frontend/src/pages/ViewAllPage.tsx lines 54-56, no upload made
IdleListUpload ==
    /\ list_uploading = FALSE
    /\ list_uploadResults = <<>>
    /\ list_showModal = FALSE
    /\ closure = <<>>
    /\ awaited = "none"
\* src/unnamed/part_011 line 46, nothing delivered
IdleActivity ==
    /\ recentActivities = <<>>
    /\ received = 0
\* the times an upload_complete event is handled
MaxCompletes == 4

\* src/frontend/src/components/LiveProgressIndicator.tsx lines 35-37, the
\* indicator not shown
IdleIndicator ==
    /\ show = FALSE
    /\ progressData = "null"
    /\ isComplete = FALSE
    /\ isError = FALSE
    /\ timers = <<>>
    /\ completes = 0
    /\ closeCalls = [e \in 1..MaxCompletes |-> 0]
IdleMore ==
    /\ IdleCalls
    /\ IdleListUpload
    /\ IdleActivity
    /\ unreadable = FALSE
    /\ IdleIndicator

IdleLocal ==
    /\ uploading = FALSE
    /\ uploadResults = <<>>
    /\ file = <<>>
    /\ showAddEdit = FALSE
    /\ editingComponent = <<>>

IdleUploadPage ==
    /\ up_uploading = FALSE
    /\ up_uploadResults = <<>>
    /\ up_file = <<>>
    /\ showUploadResultsModal = FALSE
    /\ saving = FALSE
    /\ request = <<>>
    /\ notification = "none"
    /\ backend = <<>>

IdleNorm ==
    /\ normValue = Undefined
    /\ normComplexity = <<>>
    /\ normStatus = <<>>

\* the page starts with the records of mockComponents (line 77), which
\* may be none
Init ==
    /\ app \in {"local", "frontend"}
    /\ localComponents \in {<<>>, mockComponents}
    /\ IdleLocal
    /\ IdleMore
    /\ IdleUploadPage
    /\ IdleNorm
    /\ IdleSelect
    /\ IdleSearch
    /\ IdleList
    /\ IdleTheme

\* the two upload pages with their handlers, given the files of PageFiles
Next ==
    \/ \E f \in PageFiles : HandleUploadStart(f)
    \/ HandleUploadResolve
    \/ DoneUpload
    \/ OpenAddComponent
    \/ \E i \in 1..MaxStore : OpenEditComponent(i)
    \/ CloseAddEdit
    \/ \E edits \in FormEdits : SaveComponent(edits)
    \/ \E f \in PageFiles : ProcessFileStart(f)
    \/ ProcessFileResolve
    \/ CloseUploadResultsModal
    \/ SaveToDatabaseStart
    \/ \E answered \in BOOLEAN : SaveToDatabaseResolve(answered)

Spec == Init /\ [][Next]_vars

\* the upload handlers of the two pages, given every file of Files
NextUpload ==
    \/ \E f \in Files : HandleUploadStart(f)
    \/ HandleUploadResolve
    \/ DoneUpload
    \/ \E f \in Files : ProcessFileStart(f)
    \/ ProcessFileResolve
    \/ CloseUploadResultsModal
    \/ SaveToDatabaseStart
    \/ \E answered \in BOOLEAN : SaveToDatabaseResolve(answered)

SpecUpload == Init /\ [][NextUpload]_vars

\* ViewAllPage: selection, export and upload, of a file of one valid row
\* and of the file the export has written
InitSelect == Init /\ app = "local"

NextSelect ==
    \/ \E id \in idsOf(localComponents) : HandleSelectRow(id)
    \/ HandleSelectAll
    \/ ExportSelected
    \/ \E f \in {OneRowFile} \cup {download[i] : i \in 1..Len(download)} :
           HandleUploadStart(f)
    \/ HandleUploadResolve
    \/ DoneUpload

SpecSelect == InitSelect /\ [][NextSelect]_vars

InitNorm ==
    /\ app = "norm"
    /\ localComponents = <<>>
    /\ IdleLocal
    /\ IdleMore
    /\ IdleUploadPage
    /\ IdleSelect
    /\ IdleSearch
    /\ IdleList
    /\ IdleTheme
    /\ normValue \in RawValues
    /\ normComplexity = <<>>
    /\ normStatus = <<>>

NextNorm == MapComplexity \/ MapStatus

SpecNorm == InitNorm /\ [][NextNorm]_vars

\* the stores the backend may hold when the list page opens
Stores == {store \in SUBSET {apiComponent(id) : id \in ListIds} :
              Cardinality(store) <= MaxStore}

\* the list page with the data provider just mounted, its first
\* refreshData under way (part_005 lines 176-178)
InitListPage ==
    /\ server \in Stores
    /\ ctx_components = <<>>
    /\ loading = TRUE
    /\ error = <<>>
    /\ searchTerm = Empty
    /\ selectedTower = Empty
    /\ selectedStatus = Empty
    /\ selectedComplexity = Empty
    /\ list_selectedRows = {}
    /\ list_download = <<>>
    /\ alerted = [kind |-> "none", count |-> 0]
    /\ isConnected = FALSE
    /\ broadcast = <<>>
    /\ socketQueue = <<>>
    /\ windowEvents = <<>>
    /\ list_currentPage = 1

\* the two searches: SearchPage over either catalogue, and the filters
\* of the list page over what the backend holds
InitSearch ==
    /\ app \in {"search", "list"}
    /\ localComponents = <<>>
    /\ IdleLocal
    /\ IdleMore
    /\ IdleUploadPage
    /\ IdleNorm
    /\ IdleSelect
    /\ IdleTheme
    /\ IF app = "search"
       THEN /\ catalog \in Catalogs
            /\ searchQuery = Empty
            /\ filters = defaultFilters
            /\ IdleList
       ELSE IdleSearch /\ InitListPage

NextSearch ==
    \/ \E answered \in BOOLEAN : RefreshResolve(answered)
    \/ \E t \in SearchTerms : SetSearchTerm(t)
    \/ \E t \in optionsOf("tower") : SetSelectedTower(t)
    \/ \E s \in optionsOf("status") : SetSelectedStatus(s)
    \/ \E c \in optionsOf("complexity") : SetSelectedComplexity(c)
    \/ \E q \in SearchQueries : SetSearchQuery(q)
    \/ \E t \in {Empty} \cup towersOf(catalog) : SetTowerName(t)
    \/ \E g \in {Empty} \cup appGroupsOf(catalog) : SetAppGroup(g)
    \/ \E c \in Complexities : ToggleComplexity(c)
    \/ \E s \in Statuses : ToggleStatus(s)
    \/ ClearFilters

SpecSearch == InitSearch /\ [][NextSearch]_vars

\* the two list pages, their selection, export and deletion, with other
\* users changing what the backend holds; the socket stays unconnected
InitList ==
    /\ app \in {"local", "list"}
    /\ localComponents \in {<<>>, mockComponents}
    /\ IdleLocal
    /\ IdleMore
    /\ IdleUploadPage
    /\ IdleNorm
    /\ IdleSelect
    /\ IdleSearch
    /\ IdleTheme
    /\ IF app = "list" THEN InitListPage ELSE IdleList

NextList ==
    \/ NextSelect
    \/ RefreshStart
    \/ \E answered \in BOOLEAN : RefreshResolve(answered)
    \/ \E i \in 1..Len(list_paginatedComponents) :
           ListSelectRow(list_paginatedComponents[i])
    \/ ListSelectAll
    \/ \E answered \in BOOLEAN : ListExportSelected(answered)
    \/ \E confirmed \in BOOLEAN : HandleBatchDelete(confirmed)
    \/ \E id \in ListIds : OtherCreate(id)
    \/ \E id \in ListIds : OtherDelete(id)

SpecList == InitList /\ [][NextList]_vars

\* the two list pages with their pagers, their lists growing and
\* shrinking
NextPager ==
    \/ \E button \in PagerButtons : SetCurrentPage(button)
    \/ \E pageNum \in pageNumbers(currentPage, totalPages) :
           SetPageNumber(pageNum)
    \/ \E n \in {5, 10, 25, 50} : SetItemsPerPage(n)
    \/ \E f \in {OneRowFile} : HandleUploadStart(f)
    \/ HandleUploadResolve
    \/ DoneUpload
    \/ \E button \in PagerButtons : ListSetCurrentPage(button)
    \/ \E pageNum \in pageNumbers(list_currentPage, list_totalPages) :
           ListSetPageNumber(pageNum)
    \/ RefreshStart
    \/ \E answered \in BOOLEAN : RefreshResolve(answered)
    \/ \E t \in SearchTerms : SetSearchTerm(t)
    \/ \E id \in ListIds : OtherCreate(id)
    \/ \E id \in ListIds : OtherDelete(id)

SpecPager == InitList /\ [][NextPager]_vars

\* the list page of one client, its socket, and the other users
InitSocket ==
    /\ app = "list"
    /\ localComponents = <<>>
    /\ IdleLocal
    /\ IdleMore
    /\ IdleUploadPage
    /\ IdleNorm
    /\ IdleSelect
    /\ IdleSearch
    /\ IdleTheme
    /\ InitListPage

NextSocket ==
    \/ OnConnect
    \/ OnDisconnect
    \/ \E id \in ListIds : OtherCreate(id)
    \/ \E id \in ListIds : OtherDelete(id)
    \/ OnComponentUpdate
    \/ RefreshStart
    \/ \E answered \in BOOLEAN : RefreshResolve(answered)

SpecSocket == InitSocket /\ [][NextSocket]_vars

\* a client that keeps its connection, where what runs by itself does
\* run: the socket delivers what it holds and a request is answered or
\* fails; what users do (another refreshData, another change) may
\* never happen
NextLive ==
    \/ OnConnect
    \/ \E id \in ListIds : OtherCreate(id)
    \/ \E id \in ListIds : OtherDelete(id)
    \/ OnComponentUpdate
    \/ RefreshStart
    \/ \E answered \in BOOLEAN : RefreshResolve(answered)

\* ThemeProvider from its first mount in a browser that has no saved
\* theme, over toggles and reloads
InitTheme ==
    /\ app = "theme"
    /\ localComponents = <<>>
    /\ IdleLocal
    /\ IdleMore
    /\ IdleUploadPage
    /\ IdleNorm
    /\ IdleSelect
    /\ IdleSearch
    /\ IdleList
    /\ theme = "light"
    /\ nextTheme = "none"
    /\ pendingEffects = <<"load", "save">>
    /\ storedTheme = "none"
    /\ dataTheme = "none"
    /\ prefersDark \in BOOLEAN
    /\ savedTheme = "none"
    /\ toggles = 0

NextTheme ==
    \/ LoadEffect
    \/ SaveEffect
    \/ Rerender
    \/ ToggleTheme
    \/ \E dark \in BOOLEAN : Remount(dark)

SpecTheme == InitTheme /\ [][NextTheme]_vars

SpecLive ==
    /\ InitSocket
    /\ [][NextLive]_vars
    /\ WF_vars(OnComponentUpdate)
    /\ WF_vars(\E answered \in BOOLEAN : RefreshResolve(answered))

(***************************************************************************)
(* Properties.                                                             *)
(***************************************************************************)
\* handleUpload has returned: uploadResults is the result for file[1]
localDone == app = "local" /\ ~uploading /\ uploadResults # <<>>
\* handleDrop has returned: up_uploadResults is the result for up_file[1]
pageDone == app = "frontend" /\ ~up_uploading /\ up_uploadResults # <<>>
\* the step in which handleUpload returns
localResolves == app = "local" /\ uploading /\ ~uploading'
\* the step in which handleDrop returns
pageResolves == app = "frontend" /\ up_uploading /\ ~up_uploading'

\* the extensions of the supported formats
Recognised == {s_csv, s_xlsx, s_xls, s_json}
rowFormat(f) == fileType(f) \in {s_csv, s_xlsx, s_xls}
\* the raw records of a file: the rows after the header, the items of
\* the array
rawRecords(f) == IF rowFormat(f) THEN slice1(f.rows) ELSE f.doc.items
parses(f) == rowFormat(f) \/ (fileType(f) = s_json /\ ~jsonThrows(f.doc))

\* C1: for a file in a supported format, success is true exactly when at
\* least one record passed validation
successIffUsable(results) == results.success <=> Len(results.data) > 0
C1_SuccessIffUsable ==
    /\ (localDone /\ fileType(file[1]) \in {s_csv, s_json})
           => successIffUsable(uploadResults[1])
    /\ (pageDone /\ fileType(up_file[1]) \in Recognised)
           => successIffUsable(up_uploadResults[1])

\* the records of f that get a validation error, counted from 1
rejected(f) ==
    IF rowFormat(f)
    THEN {k \in 1..Len(rawRecords(f)) :
             /\ Len(rawRecords(f)[k]) > 1
             /\ missingRequired(csvComponent(rawRecords(f)[k]))}
    ELSE {k \in 1..Len(rawRecords(f)) :
             missingRequired(jsonComponent(rawRecords(f)[k]))}
mentions(errors, text) ==
    \E i \in 1..Len(errors) : startsWith(errors[i], text)
rowError(n) == m_Row \o toString(n) \o m_Missing
itemError(n) == m_Item \o toString(n) \o m_Missing

\* C2 as stated: the error for the k-th data record of a file reads
\* "Row k: Missing required fields" ("Item k: ..." for an item of an array)
carriesRecordIndex(f, results) ==
    parses(f) =>
        \A k \in rejected(f) :
            mentions(results.errors,
                     IF rowFormat(f) THEN rowError(k) ELSE itemError(k))
carriesFileRow(f, results) ==
    parses(f) =>
        /\ Len(results.errors) = Cardinality(rejected(f))
        /\ \A k \in rejected(f) :
               mentions(results.errors,
                        IF rowFormat(f) THEN rowError(k + 1) ELSE itemError(k))
accounted(f, results) ==
    parses(f) =>
        Len(results.data) + Len(results.errors) = Len(rawRecords(f))
C3_EveryRecordAccounted ==
    /\ (localDone /\ fileType(file[1]) \in {s_csv, s_json})
           => accounted(file[1], uploadResults[1])
    /\ (pageDone /\ fileType(up_file[1]) \in Recognised)
           => accounted(up_file[1], up_uploadResults[1])

\* C4: the upload of a file that holds a header row and nothing else
\* returns success = false and no records, and changes no store
headerOnly(f) == rowFormat(f) /\ Len(f.rows) = 1
nothingCreated(results) == ~results.success /\ results.data = <<>>
C4_HeaderOnly ==
    [][/\ (localResolves /\ fileType(file[1]) = s_csv /\ headerOnly(file[1]))
              => /\ nothingCreated(uploadResults'[1])
                 /\ localComponents' = localComponents
       /\ (pageResolves /\ headerOnly(up_file[1]))
              => /\ nothingCreated(up_uploadResults'[1])
                 /\ ~isSuccess(up_uploadResults'[1])
                 /\ backend' = backend]_vars

\* C5: the upload of a file whose extension is none of the recognised ones
\* returns success = false, no records and one error that begins
\* "Unsupported file type", changes no store, and is never sent for saving
unsupportedFormat(results) ==
    /\ ~results.success
    /\ results.data = <<>>
    /\ Len(results.errors) = 1
    /\ startsWith(results.errors[1], m_UnsupportedFileType)
C5_UnsupportedFormat ==
    [][/\ (localResolves /\ fileType(file[1]) \notin Recognised)
              => /\ unsupportedFormat(uploadResults'[1])
                 /\ localComponents' = localComponents
       /\ (pageResolves /\ fileType(up_file[1]) \notin Recognised)
              => /\ unsupportedFormat(up_uploadResults'[1])
                 /\ backend' = backend
       /\ (app = "frontend" /\ ~saving /\ saving')
              => fileType(up_file[1]) \in Recognised]_vars
\* notes.txt has been uploaded to a page that holds a record
C5_TextFileRefused ==
    /\ localDone
    /\ fileType(file[1]) = s_txt
    /\ unsupportedFormat(uploadResults[1])
    /\ localComponents = mockComponents

\* C6: the records of a batch are exactly the raw records whose tower
\* name, app group and component type are non-empty after trimming
nonBlank(text) == text # Undefined /\ trim(text) # Empty
acceptable(component) ==
    /\ nonBlank(component.towerName)
    /\ nonBlank(component.appGroup)
    /\ nonBlank(component.componentType)
extracted(f, k) ==
    IF rowFormat(f) THEN csvComponent(rawRecords(f)[k])
    ELSE jsonComponent(rawRecords(f)[k])
acceptedIffNonBlank(f, results) ==
    parses(f) =>
        /\ \A i \in 1..Len(results.data) : acceptable(results.data[i])
        /\ Len(results.data) =
               Cardinality({k \in 1..Len(rawRecords(f)) :
                               acceptable(extracted(f, k))})
C6_AcceptedIffTrimmedNonEmpty ==
    /\ (localDone /\ fileType(file[1]) \in {s_csv, s_json})
           => acceptedIffNonBlank(file[1], uploadResults[1])
    /\ (pageDone /\ fileType(up_file[1]) \in Recognised)
           => acceptedIffNonBlank(up_file[1], up_uploadResults[1])

\* C7: the upload of the partial-success scenario puts one record in front
\* of the component set: Simple, Released, 2024, 3
C7_ScenarioACreatesOne ==
    [][(localResolves /\ file[1] = ScenarioAFile)
          => /\ Len(localComponents') = Len(localComponents) + 1
             /\ localComponents'[1].complexity = Simple
             /\ localComponents'[1].status = Released
             /\ localComponents'[1].year = 2024
             /\ localComponents'[1].month = 3]_vars

\* C8: complexity and status of every record, stored or handed on by an
\* upload for saving, are members of their enumerations
enumerated(components) ==
    \A i \in 1..Len(components) :
        /\ components[i].complexity \in Complexities
        /\ components[i].status \in Statuses
C8_EnumeratedFields ==
    /\ enumerated(localComponents)
    /\ uploadResults # <<>> => enumerated(uploadResults[1].data)
    /\ up_uploadResults # <<>> => enumerated(up_uploadResults[1].data)
    /\ request # <<>> => enumerated(request[1])
    /\ enumerated(backend)

\* C9: after every upload, creation and edit the identifiers of the
\* component set are pairwise different, and an edit leaves every
\* identifier as it was
uniqueIds(components) ==
    \A i, j \in 1..Len(components) :
        components[i].id = components[j].id => i = j
sameIds(before, after) ==
    /\ Len(after) = Len(before)
    /\ \A i \in 1..Len(before) : after[i].id = before[i].id
C9_UniqueImmutableIds ==
    [][/\ uniqueIds(localComponents')
       /\ (showAddEdit /\ ~showAddEdit' /\ editingComponent # <<>>)
              => sameIds(localComponents, localComponents')]_vars

\* C10: the normalizer returns what the alias table gives for the
\* lower-cased and trimmed string, and the default (Medium, Planned) for
\* every string that is not in the table, the empty and the absent one
\* included
ComplexityTable ==
    [w \in {s_low, s_simple, s_easy, s_basic} |-> Simple]
        @@ [w \in {s_medium, s_moderate, s_intermediate, s_mid} |-> Medium]
        @@ [w \in {s_high, s_complex, s_hard, s_difficult, s_advanced}
               |-> Complex]
StatusTable ==
    [w \in {s_released, s_live, s_production, s_deployed, s_complete,
            s_done} |-> Released]
        @@ [w \in {s_in_development, s_indevelopment_h, s_development,
                   s_dev, s_in_progress, s_inprogress_h, s_active, s_working}
               |-> InDevelopment]
        @@ [w \in {s_planned, s_pending, s_future, s_scheduled,
                   s_upcoming} |-> Planned]
lookup(table, value, default) ==
    IF value = Undefined THEN default
    ELSE IF trim(toLowerCase(value)) \in DOMAIN table
         THEN table[trim(toLowerCase(value))]
         ELSE default
C10_NormalizerFollowsTable ==
    /\ (normComplexity # <<>> /\ normValue # NumberThree)
           => normComplexity[1] = lookup(ComplexityTable, normValue, Medium)
    /\ (normStatus # <<>> /\ normValue # NumberThree)
           => normStatus[1] = lookup(StatusTable, normValue, Planned)
\* "  LOW " has been normalized to Simple and to the default status
C10_PaddedUpperCaseAlias ==
    /\ normValue = <<" ", " ">> \o toUpperCase(s_low) \o <<" ">>
    /\ normComplexity = <<Simple>>
    /\ normStatus = <<Planned>>

\* C11: the normalizer returns for every input, the empty and the absent
\* one included, and gives a member of the enumeration back as it is
C11_TotalAndIdempotent ==
    /\ normComplexity # <<>> =>
           /\ normComplexity[1] \in Complexities
           /\ normValue \in Complexities => normComplexity[1] = normValue
    /\ normStatus # <<>> =>
           /\ normStatus[1] \in Statuses
           /\ normValue \in Statuses => normStatus[1] = normValue

\* C12: when a file whose records the component set already holds is
\* uploaded again, each of its valid rows is added once more, under an
\* identifier no other record has, and the records held before stay as
\* they are
holdsRecordsOf(components, data) ==
    /\ data # <<>>
    /\ \A i \in 1..Len(data) :
           \E j \in 1..Len(components) :
               components[j] = withId(components[j].id, data[i])
addedAgain(before, after, data) ==
    /\ Len(after) = Len(before) + Len(data)
    /\ SubSeq(after, Len(data) + 1, Len(after)) = before
    /\ \A i \in 1..Len(data) : after[i] = withId(after[i].id, data[i])
    /\ uniqueIds(after)
C12_ReuploadDuplicates ==
    [][(/\ localResolves
        /\ holdsRecordsOf(localComponents, processUploadFile(file[1]).data))
          => addedAgain(localComponents, localComponents',
                        processUploadFile(file[1]).data)]_vars

\* C13: when the export of the whole component set is uploaded, the
\* records the upload reads are the records of the set: the same tower,
\* app group, component type, complexity, status, year, month and
\* description
contentOf(records) ==
    {<<records[i].towerName, records[i].appGroup, records[i].componentType,
       records[i].complexity, records[i].status, records[i].year,
       records[i].month, records[i].description>> : i \in 1..Len(records)}
exportOfAll(f) ==
    /\ localComponents # <<>>
    /\ f = csvFileOf(exportLines(localComponents, idsOf(localComponents)))
C13_ExportRoundTrip ==
    [][(localResolves /\ exportOfAll(file[1]))
          => contentOf(uploadResults'[1].data) = contentOf(localComponents)]_vars

\* C14: a file with the extension xlsx or xls is never refused as an
\* unsupported file type, and its rows give the records that the same
\* rows give in a delimited-text file
sheet(f) == fileType(f) \in {s_xlsx, s_xls}
sheetAccepted(results, asCsv) ==
    /\ ~mentions(results.errors, m_UnsupportedFileType)
    /\ results.data = asCsv.data
C14_SpreadsheetAccepted ==
    /\ (localDone /\ sheet(file[1]))
           => sheetAccepted(uploadResults[1],
                            processUploadFile(CsvFile(s_csv, file[1].rows)))
    /\ (pageDone /\ sheet(up_file[1]))
           => sheetAccepted(up_uploadResults[1],
                            processFile(CsvFile(s_csv, up_file[1].rows)))

\* C15: search filters are optional and conjunctive.  A record is in the
\* result exactly when it satisfies every filter that has been set (the
\* search text among them), so with no filter set and an empty search
\* text the result is every record, on SearchPage and on the list page.
textFound(texts, query) ==
    \E i \in 1..Len(texts) :
        texts[i] # Undefined
            /\ includes(toLowerCase(texts[i]), toLowerCase(query))
satisfiesSearch(c) ==
    /\ \/ searchQuery = Empty
       \/ textFound(<<c.towerName, c.appGroup, c.componentType,
                      c.description, getMonthName(c.month)>>, searchQuery)
       \/ toString(c.year) = trim(searchQuery)
       \/ toString(c.month) = trim(searchQuery)
    /\ filters.towerName = Empty \/ c.towerName = filters.towerName
    /\ filters.appGroup = Empty \/ c.appGroup = filters.appGroup
    /\ filters.complexity = {} \/ c.complexity \in filters.complexity
    /\ filters.status = {} \/ c.status \in filters.status
satisfiesList(c) ==
    /\ \/ searchTerm = Empty
       \/ textFound(<<c.name, c.description>>, searchTerm)
    /\ selectedTower = Empty \/ c.tower = selectedTower
    /\ selectedStatus = Empty \/ c.status = selectedStatus
    /\ selectedComplexity = Empty \/ c.complexity = selectedComplexity
C15_OptionalConjunctive ==
    /\ app = "search" =>
           filteredComponents = SelectSeq(catalog, satisfiesSearch)
    /\ app = "list" =>
           filtered = SelectSeq(ctx_components, satisfiesList)
\* the part of C15 about the list page alone
C15_ListPageConjunctive ==
    app = "list" => filtered = SelectSeq(ctx_components, satisfiesList)

\* C16: export emits exactly the selected records.  Whenever an export
\* writes a file, the file has one row for each selected record and no
\* row for a record that is not selected (with nothing selected on the
\* backend-backed page, whose Export button is always enabled, the set
\* exported is the whole list).
rowIds(f) == {f.rows[i][1] : i \in 2..Len(f.rows)}
exportsSelection(f, records, ids) ==
    /\ \A i \in 1..Len(records) :
           records[i].id \in ids <=> idText(records[i].id) \in rowIds(f)
    /\ Len(f.rows) - 1 =
           Cardinality({i \in 1..Len(records) : records[i].id \in ids})
exportsPicked(exported, store, keys) ==
    {exported[i] : i \in 1..Len(exported)} =
        IF keys = {} THEN store ELSE {c \in store : rowKey(c) \in keys}
C16_ExportsExactlySelected ==
    [][/\ download' # download =>
              exportsSelection(download'[1], localComponents, selectedRows)
       /\ list_download' # list_download =>
              exportsPicked(list_download'[1], server, list_selectedRows)
      ]_vars
\* the part of C16 about the page that keeps its records itself
C16_LocalExportsSelected ==
    [][download' # download =>
           exportsSelection(download'[1], localComponents, selectedRows)
      ]_vars

\* C17: batch-deleting identifiers of which some do not exist deletes
\* exactly the existing ones, reports as deleted count the number
\* actually deleted, and raises no error for the nonexistent ones.
\* Whenever a confirmed batch delete of the selected rows has run, the
\* store has lost exactly the records selected and the page reports
\* their number.
named(store, keys) == {c \in store : rowKey(c) \in keys}
C17_BatchDeleteExisting ==
    [][(list_selectedRows # {} /\ alerted' # alerted) =>
           /\ server' = server \ named(server, list_selectedRows)
           /\ alerted'.kind = "deleted"
           /\ alerted'.count =
                  Cardinality(named(server, list_selectedRows))
      ]_vars

\* C18: for each component_update message delivered on the socket exactly
\* one component_update event is dispatched in the receiving page, never
\* zero and never more than one; so when another client creates a
\* component, this client receives exactly one create event carrying the
\* new component's identifier.
delivered ==
    /\ isConnected /\ isConnected'
    /\ socketQueue # <<>> /\ socketQueue' = Tail(socketQueue)
C18_OneEventPerMessage ==
    [][windowEvents' = IF delivered
                       THEN Append(windowEvents, Head(socketQueue))
                       ELSE windowEvents]_vars
eventsOf(events, action, id) ==
    {i \in 1..Len(events) :
         events[i].action = action /\ events[i].component.id = id}
C18_OneCreateEventReceived ==
    \E id \in ListIds :
        /\ apiComponent(id) \in server
        /\ Cardinality(eventsOf(broadcast, "create", id)) = 1
        /\ Cardinality(eventsOf(windowEvents, "create", id)) = 1
        /\ socketQueue = <<>>

\* C19: after another user creates, updates or deletes a component, the
\* component list of every connected client eventually reflects the
\* change without a manual refresh: once a connected client has received
\* a component_update event while the list of its data context differs
\* from what the backend holds, the list comes to hold what the backend
\* holds, unless a request fails.
reflects == ctx_components = listed(server)
C19_EventLeadsToListUpdate ==
    (isConnected /\ windowEvents # <<>> /\ ~reflects)
        ~> (reflects \/ error # <<>>)

\* C20: the theme persists across sessions.  Whenever a theme was saved
\* by an earlier session, once the provider has mounted and its effects
\* have settled the active theme is the saved one (until it is toggled);
\* and after every toggle, once settled, the stored theme is the active
\* theme.
settled == pendingEffects = <<>> /\ nextTheme = "none"
C20_ThemePersists ==
    settled =>
        /\ storedTheme = theme
        /\ (savedTheme \in Themes /\ toggles = 0) => theme = savedTheme
\* a session that found dark saved, although the system prefers light,
\* and shows dark
C20_SavedDarkRestored ==
    /\ settled
    /\ savedTheme = "dark" /\ ~prefersDark /\ toggles = 0
    /\ theme = "dark" /\ storedTheme = "dark"
\* a toggle of this session has been stored
C20_ToggleStored ==
    settled /\ toggles > 0 /\ storedTheme = theme /\ theme # savedTheme

\* C21: after any sequence of page clicks, search or filter changes,
\* deletions, uploads and page-size changes, the current page number
\* satisfies 1 <= currentPage <= max(1, totalPages), so the page shown is
\* non-empty whenever the list is non-empty.
pageInRange(page, pages) ==
    1 <= page /\ page <= (IF pages > 1 THEN pages ELSE 1)
C21_PageInRange ==
    /\ app = "local" =>
           /\ pageInRange(currentPage, totalPages)
           /\ localComponents # <<>> => paginatedComponents # <<>>
    /\ app = "list" =>
           /\ pageInRange(list_currentPage, list_totalPages)
           /\ filtered # <<>> => list_paginatedComponents # <<>>

(***************************************************************************)
(* src/unnamed/part_005: the calls of DataProvider, each in three steps:   *)
(* the code up to its await, the backend's answer, and the code after the  *)
(* await.  Several calls may await at once, and the answers come back in   *)
(* any order.                                                              *)
(***************************************************************************)
\* the calls made to the provider, the refreshData of its mount included
MaxCalls == 3

\* what becomes of a request: carried out and answered in full; carried
\* out and answered { success: true } with no data; refused with
\* { success: false }, with an error text or with none; or failed, so
\* that makeRequest throws
Outcomes == {"success", "nodata", "failure", "refused", "throw"}
s_refused == <<"r", "e", "f", "u", "s", "e", "d">>
s_failed == <<"F", "a", "i", "l", "e", "d">>
s_http == <<"H", "T", "T", "P">>

\* PUT /api/components/:id with { status: 'In Development' }
updatedComponent(id) == [apiComponent(id) EXCEPT !.status = InDevelopment]
serverIds == {c.id : c \in server}
\* the identifier the backend gives to the next record
nextId == CHOOSE id \in ListIds \ serverIds :
              \A other \in ListIds \ serverIds : id <= other

withoutAt(s, i) == SubSeq(s, 1, i - 1) \o SubSeq(s, i + 1, Len(s))
awaiting(call, arg) == [call |-> call, arg |-> arg, reply |-> <<>>]

\* refreshData, lines 25-29: up to the await
RefreshDataCall ==
    /\ app = "data"
    /\ calls < MaxCalls
    /\ calls' = calls + 1
    /\ loading' = TRUE
    /\ error' = <<>>
    /\ requests' = Append(requests, awaiting("refreshData", Empty))
    /\ UNCHANGED <<exceptData, pageVars, server, ctx_components, filterVars,
                   pickVars, socketVars, returned>>

\* searchComponents({ tower }), lines 151-162: up to the await
SearchComponentsCall(tower) ==
    /\ app = "data"
    /\ calls < MaxCalls
    /\ calls' = calls + 1
    /\ loading' = TRUE
    /\ error' = <<>>
    /\ requests' = Append(requests, awaiting("searchComponents", tower))
    /\ UNCHANGED <<exceptData, pageVars, server, ctx_components, filterVars,
                   pickVars, socketVars, returned>>

\* addComponent, updateComponent(id) and deleteComponent(id), lines 44-47,
\* 62-65 and 82-85: up to the await.  The list page, the one caller of
\* addComponent and deleteComponent, shows its buttons when it is neither
\* loading nor in error (src/frontend/src/pages/ViewAllPage.tsx lines
\* 309-331)
MutatingCalls == {"addComponent", "updateComponent", "deleteComponent"}
MutatingCall(call, id) ==
    /\ app = "data"
    /\ call \in MutatingCalls
    /\ calls < MaxCalls
    /\ calls' = calls + 1
    /\ call # "updateComponent" => listShown
    \* a new record has no identifier yet; the others are records of the
    \* list
    /\ IF call = "addComponent" THEN id = 0 ELSE id \in idsOf(ctx_components)
    /\ error' = <<>>
    /\ requests' = Append(requests, awaiting(call, id))
    /\ UNCHANGED <<exceptData, pageVars, server, ctx_components, loading,
                   filterVars, pickVars, socketVars, returned>>

\* whether the backend can carry the request out
servable(r) ==
    CASE r.call = "addComponent" -> Cardinality(server) < MaxStore
      [] r.call \in {"updateComponent", "deleteComponent"} ->
             r.arg \in serverIds
      [] OTHER -> TRUE

\* the store after the backend has carried the request out
served(r) ==
    CASE r.call = "addComponent" -> server \cup {apiComponent(nextId)}
      [] r.call = "updateComponent" ->
             {IF c.id = r.arg THEN updatedComponent(r.arg) ELSE c :
                 c \in server}
      [] r.call = "deleteComponent" -> {c \in server : c.id # r.arg}
      [] OTHER -> server

\* the body of the response to a request carried out
response(r) ==
    LET OfTower(c) == c.tower = r.arg
    IN  CASE r.call = "refreshData" ->
                 [success |-> TRUE, components |-> listed(server)]
          [] r.call = "searchComponents" ->
                 [success |-> TRUE,
                  components |-> SelectSeq(listed(server), OfTower)]
          [] r.call = "addComponent" ->
                 [success |-> TRUE, data |-> apiComponent(nextId)]
          [] r.call = "updateComponent" ->
                 [success |-> TRUE, data |-> updatedComponent(r.arg)]
          [] r.call = "deleteComponent" -> [success |-> TRUE]

\* the backend answers one of the requests: it carries it out, or
\* answers { success: false, error } and changes nothing, or the request
\* fails (makeRequest throws, src/frontend/src/services/api.ts lines 60-84)
BackendAnswers(i, outcome) ==
    /\ app = "data"
    /\ i \in 1..Len(requests)
    /\ requests[i].reply = <<>>
    /\ outcome \in {"success", "nodata"} => servable(requests[i])
    /\ outcome = "nodata" =>
           requests[i].call \in {"addComponent", "updateComponent"}
    /\ server' = IF outcome \in {"success", "nodata"}
                 THEN served(requests[i]) ELSE server
    /\ requests' =
           [requests EXCEPT ![i].reply =
               CASE outcome = "success" -> <<response(requests[i])>>
                 [] outcome = "nodata" ->
                        <<[success |-> TRUE, error |-> Undefined]>>
                 [] outcome = "failure" ->
                        <<[success |-> FALSE, error |-> Undefined]>>
                 [] outcome = "refused" ->
                        <<[success |-> FALSE, error |-> s_refused]>>
                 [] outcome = "throw" -> <<[message |-> s_http]>>]
    /\ UNCHANGED <<exceptData, pageVars, ctx_components, loading, error,
                   filterVars, pickVars, socketVars, returned, calls>>

threw(reply) == "message" \in DOMAIN reply
\* response.success
succeeded(reply) == ~threw(reply) /\ reply.success
\* response.success && response.data, lines 48 and 66
succeededWithData(reply) == succeeded(reply) /\ "data" \in DOMAIN reply
outcomeOf(reply) ==
    IF threw(reply) THEN "throw"
    ELSE IF reply.success THEN "success" ELSE "failure"

\* setComponents(prev => [response.data!, ...prev]), line 50
addComponent_list(reply, prev) ==
    IF succeededWithData(reply) THEN <<reply.data>> \o prev ELSE prev
\* setComponents(prev => prev.map(...)), lines 67-69
updateComponent_list(id, reply, prev) ==
    IF succeededWithData(reply)
    THEN [i \in 1..Len(prev) |->
             IF prev[i].id = id THEN reply.data ELSE prev[i]]
    ELSE prev
\* a deleteComponent that drops the record whatever the answer
deleteComponent_always(id, reply, prev) ==
    LET Other(comp) == comp.id # id IN SelectSeq(prev, Other)
\* setComponents(prev => prev.filter(comp => comp.id !== id)), line 88
deleteComponent_list(id, reply, prev) ==
    LET Other(comp) == comp.id # id
    IN  IF succeeded(reply) THEN SelectSeq(prev, Other) ELSE prev
\* setComponents(response.components), lines 31 and 163
refreshData_list(reply, prev) ==
    IF succeeded(reply) THEN reply.components ELSE prev

\* whether the call takes the branch of success (and returns true, where
\* it returns anything)
returnValue(call, reply) ==
    IF call \in {"addComponent", "updateComponent"}
    THEN succeededWithData(reply) ELSE succeeded(reply)

\* setError of the else branch and of the catch: response.error || '...',
\* err.message
errorOf(call, reply, error_now) ==
    IF threw(reply) THEN reply.message
    ELSE IF returnValue(call, reply) THEN error_now
    ELSE IF Falsy(reply.error) THEN s_failed ELSE reply.error

\* the code after the await of the call whose response has arrived
CallReturns(i) ==
    /\ app = "data"
    /\ i \in 1..Len(requests)
    /\ requests[i].reply # <<>>
    /\ LET r == requests[i]
           reply == r.reply[1]
       IN  /\ ctx_components' =
                  CASE r.call \in {"refreshData", "searchComponents"} ->
                           refreshData_list(reply, ctx_components)
                    [] r.call = "addComponent" ->
                           addComponent_list(reply, ctx_components)
                    [] r.call = "updateComponent" ->
                           updateComponent_list(r.arg, reply, ctx_components)
                    [] r.call = "deleteComponent" ->
                           deleteComponent_list(r.arg, reply, ctx_components)
           /\ error' = errorOf(r.call, reply, error)
           \* finally { setLoading(false) }, lines 38-40 and 169-171
           /\ loading' = IF r.call \in MutatingCalls THEN loading ELSE FALSE
           /\ returned' =
                  [call |-> r.call, outcome |-> outcomeOf(reply),
                   value |-> IF r.call \in MutatingCalls
                             THEN returnValue(r.call, reply) ELSE "none"]
    /\ requests' = withoutAt(requests, i)
    /\ UNCHANGED <<exceptData, pageVars, server, filterVars, pickVars,
                   socketVars, calls>>

\* the provider just mounted over a backend of one record, its first
\* refreshData awaiting (lines 176-178)
InitData ==
    /\ app = "data"
    /\ localComponents = <<>>
    /\ IdleLocal
    /\ IdleUploadPage
    /\ IdleNorm
    /\ IdleSelect
    /\ IdleSearch
    /\ IdleTheme
    /\ InitListPage
    /\ server = {apiComponent(1)}
    /\ requests = <<awaiting("refreshData", Empty)>>
    /\ returned = [call |-> "none", outcome |-> "none", value |-> "none"]
    /\ calls = 1
    /\ IdleListUpload
    /\ IdleActivity
    /\ unreadable = FALSE
    /\ IdleIndicator

NextData ==
    \/ RefreshDataCall
    \/ \E tower \in {Security} : SearchComponentsCall(tower)
    \/ \E call \in MutatingCalls, id \in {0} \cup ListIds :
           MutatingCall(call, id)
    \/ \E i \in 1..MaxCalls, outcome \in Outcomes :
           BackendAnswers(i, outcome)
    \/ \E i \in 1..MaxCalls : CallReturns(i)

SpecData == InitData /\ [][NextData]_vars

\* C22: whenever no call of the provider awaits a response, every
\* component of the list is a record of the backend: no deleted one is
\* back in the list
C22_NoDeletedComponentListed ==
    requests = <<>> =>
        \A i \in 1..Len(ctx_components) : ctx_components[i].id \in serverIds

\* C24: the step that ends an addComponent, an updateComponent or a
\* deleteComponent changes the list only if the backend reported success;
\* if the backend refused or the request threw, the list is as it was,
\* error holds a message and the call returns false
C24_ListChangesOnlyOnSuccess ==
    [][(Len(requests') < Len(requests) /\ returned'.call \in MutatingCalls)
          => /\ ctx_components' # ctx_components
                    => returned'.outcome = "success"
             /\ returned'.outcome \in {"failure", "throw"}
                    => /\ ctx_components' = ctx_components
                       /\ error' # <<>>
                       /\ returned'.value = FALSE]_vars

\* a deleteComponent of a listed record has thrown: the record is still
\* listed, error is set and the call returned false
C24_FailedDeleteLeavesList ==
    /\ returned.call = "deleteComponent"
    /\ returned.outcome = "throw"
    /\ returned.value = FALSE
    /\ requests = <<>>
    /\ ctx_components # <<>>
    /\ error = s_http

(***************************************************************************)
(* src/frontend/src/pages/ViewAllPage.tsx lines 183-235: handleUpload, its *)
(* three awaits one after the other (uploadFile's request, the refreshData *)
(* inside uploadFile, and its own refreshData).                            *)
(***************************************************************************)
\* the files dropped on the page: one that holds a component the backend
\* does not have, and one that holds only components it has
UploadedFiles == {"new", "known"}

\* data: latestComponents.map(...), lines 196-206: a row per component
\* (the fields of the row that the model's records have)
previewRows(components) ==
    [i \in 1..Len(components) |->
        [componentType |-> components[i].name,
         towerName |-> IF Falsy(components[i].tower) THEN s_unknown
                       ELSE components[i].tower,
         status |-> components[i].status,
         complexity |-> components[i].complexity,
         description |-> IF Falsy(components[i].description) THEN Empty
                         ELSE components[i].description]]

\* lines 183-187 and part_005 lines 100-103: up to the await of the upload
\* request.  `components` is the list of the render whose handler runs
ListHandleUpload(f) ==
    /\ app = "list"
    /\ listShown
    /\ awaited = "none"
    /\ list_uploading' = TRUE
    /\ closure' = <<ctx_components>>
    /\ awaited' = <<"uploadFile", f>>
    /\ error' = <<>>
    /\ UNCHANGED <<exceptListUpload, pageVars, server, ctx_components,
                   loading, filterVars, pickVars, socketVars,
                   list_uploadResults, list_showModal>>

\* lines 216-234, the results of an upload that failed
failedResults == [success |-> FALSE, data |-> <<>>]

\* POST /api/upload is answered.  On success (part_005 lines 104-106)
\* uploadFile calls refreshData, which runs up to its await; otherwise
\* (lines 116-130 and 216-234) the failure is shown
UploadFileAnswered(outcome) ==
    /\ app = "list"
    /\ awaited # "none"
    /\ awaited[1] = "uploadFile"
    /\ IF outcome = "success"
       THEN /\ server' = IF awaited[2] = "new" /\ Cardinality(server) < MaxStore
                         THEN server \cup {apiComponent(nextId)}
                         ELSE server
            /\ loading' = TRUE
            /\ error' = <<>>
            /\ awaited' = <<"refreshData", 1>>
            /\ UNCHANGED <<list_uploading, list_uploadResults,
                           list_showModal, closure>>
       ELSE /\ error' = IF outcome = "throw" THEN s_http ELSE s_failed
            /\ list_uploadResults' = <<failedResults>>
            /\ list_showModal' = TRUE
            /\ list_uploading' = FALSE
            /\ awaited' = "none"
            /\ closure' = <<>>
            /\ UNCHANGED <<server, loading>>
    /\ UNCHANGED <<exceptListUpload, pageVars, ctx_components, filterVars,
                   pickVars, socketVars>>

\* line 192: `components` is the constant of the render that made the
\* handler
latestComponents(captured, refreshed) == slice(captured, 0, 5)

\* a refreshData of the upload is answered (part_005 lines 29-40).  After
\* the first, uploadFile returns and handleUpload calls refreshData again
\* (line 191); after the second, lines 192-213 and 234 run
UploadRefreshAnswered(outcome) ==
    /\ app = "list"
    /\ awaited # "none"
    /\ awaited[1] = "refreshData"
    /\ outcome \in {"success", "throw"}
    /\ LET refreshed == IF outcome = "success" THEN listed(server)
                        ELSE ctx_components
       IN  /\ ctx_components' = refreshed
           /\ IF awaited[2] = 1
              THEN /\ loading' = TRUE
                   /\ error' = <<>>
                   /\ awaited' = <<"refreshData", 2>>
                   /\ UNCHANGED <<list_uploading, list_uploadResults,
                                  list_showModal, closure, pageVars>>
              ELSE /\ loading' = FALSE
                   /\ error' = IF outcome = "success" THEN error ELSE s_http
                   /\ list_uploadResults' =
                          <<[success |-> TRUE,
                             data |-> previewRows(
                                 latestComponents(closure[1], refreshed))]>>
                   /\ list_showModal' = TRUE
                   /\ list_currentPage' = 1
                   /\ list_uploading' = FALSE
                   /\ awaited' = "none"
                   /\ closure' = <<>>
    /\ UNCHANGED <<exceptListUpload, server, filterVars, pickVars,
                   socketVars>>

\* onClose of the results modal, lines 720-723
CloseUploadResults ==
    /\ app = "list"
    /\ list_showModal
    /\ list_showModal' = FALSE
    /\ list_uploadResults' = <<>>
    /\ UNCHANGED <<exceptListUpload, listVars, list_uploading, closure,
                   awaited>>

InitListUpload ==
    /\ app = "list"
    /\ localComponents = <<>>
    /\ IdleLocal
    /\ IdleUploadPage
    /\ IdleNorm
    /\ IdleSelect
    /\ IdleSearch
    /\ IdleTheme
    /\ InitListPage
    /\ IdleMore

NextListUpload ==
    \/ awaited = "none" /\ RefreshStart
    \/ \E answered \in BOOLEAN : awaited = "none" /\ RefreshResolve(answered)
    \/ \E f \in UploadedFiles : ListHandleUpload(f)
    \/ \E outcome \in Outcomes : UploadFileAnswered(outcome)
    \/ \E outcome \in Outcomes : UploadRefreshAnswered(outcome)
    \/ CloseUploadResults

SpecListUpload == InitListUpload /\ [][NextListUpload]_vars

\* C23: the preview shown after a successful upload is the first five
\* entries of the component list as it is after the upload's refresh
C23_PreviewFromRefreshedList ==
    [][(awaited # "none" /\ awaited' = "none"
            /\ list_uploadResults'[1].success)
        => list_uploadResults'[1].data
               = previewRows(slice(ctx_components', 0, 5))]_vars

(***************************************************************************)
(* src/unnamed/part_011 lines 79-90: the recent activities of the socket   *)
(* provider.  An activity is the number of its arrival.                    *)
(***************************************************************************)
\* the activities the socket delivers in all
MaxActivities == 24
\* updated.slice(-20), line 88
ActivitiesKept == 20

\* the activities numbered from first to last
RECURSIVE arrivals(_, _)
arrivals(first, last) ==
    IF last < first THEN <<>>
    ELSE Append(arrivals(first, last - 1), last)

\* the callback of setRecentActivities, lines 85-89 (and handleUserActivity
\* of src/unnamed/part_012 lines 26-29, the same code)
keepLast(prev, activity) ==
    LET appended == Append(prev, activity)
    IN  slice(appended, 0 - ActivitiesKept, Len(appended))

\* socket.on('user_activity'), lines 84-90
OnUserActivity ==
    /\ app = "activity"
    /\ received < MaxActivities
    /\ received' = received + 1
    /\ recentActivities' = keepLast(recentActivities, received + 1)
    /\ UNCHANGED exceptActivity

\* the sizes of data.activities that the backend sends
BatchSizes == {0, 2, ActivitiesKept + 1}

\* socket.on('recent_activities'), lines 79-82: data.activities holds n
\* activities
OnRecentActivities(n) ==
    /\ app = "activity"
    /\ received + n <= MaxActivities
    /\ received' = received + n
    /\ recentActivities' = arrivals(received + 1, received + n)
    /\ UNCHANGED exceptActivity

InitActivity ==
    /\ app = "activity"
    /\ localComponents = <<>>
    /\ IdleLocal
    /\ IdleUploadPage
    /\ IdleNorm
    /\ IdleSelect
    /\ IdleSearch
    /\ IdleTheme
    /\ IdleList
    /\ IdleMore

NextActivity ==
    \/ OnUserActivity
    \/ \E n \in BatchSizes : OnRecentActivities(n)

SpecActivity == InitActivity /\ [][NextActivity]_vars

\* C25: the list of recent activities holds at most 20 activities, in the
\* order of their arrival, the last of them the one that arrived last
C25_LastTwentyActivities ==
    app = "activity" =>
        /\ Len(recentActivities) <= 20
        /\ \A i, j \in 1..Len(recentActivities) :
               i < j => recentActivities[i] < recentActivities[j]
        /\ recentActivities # <<>> =>
               recentActivities[Len(recentActivities)] = received

(***************************************************************************)
(* src/frontend/src/pages/ViewAllPage.tsx: the rows of the list page over  *)
(* selections, searches and deletions.                                     *)
(***************************************************************************)
\* handleDeleteComponent, lines 267-283, with the answer to window.confirm
\* and deleteComponent of part_005 lines 82-97 with the backend's answer
ListDeleteComponent(c, confirmed, outcome) ==
    /\ app = "list"
    /\ listShown
    /\ \E i \in 1..Len(list_paginatedComponents) :
           list_paginatedComponents[i] = c
    /\ outcome \in {"success", "throw"}
    /\ outcome = "success" => c \in server
    /\ IF ~confirmed
       THEN UNCHANGED <<server, ctx_components, error, alerted>>
       ELSE IF outcome = "success"
       THEN /\ server' = server \ {c}
            /\ ctx_components' = deleteComponent_list(
                   c.id, [success |-> TRUE], ctx_components)
            /\ UNCHANGED <<error, alerted>>
       ELSE /\ error' = s_http
            /\ alerted' = [kind |-> "error", count |-> 0]
            /\ UNCHANGED <<server, ctx_components>>
    /\ UNCHANGED <<exceptList, pageVars, loading, filterVars,
                   list_selectedRows, list_download, socketVars>>

NextRows ==
    \/ RefreshStart
    \/ \E answered \in BOOLEAN : RefreshResolve(answered)
    \/ \E i \in 1..Len(list_paginatedComponents) :
           listShown /\ ListSelectRow(list_paginatedComponents[i])
    \/ listShown /\ ListSelectAll
    \/ \E t \in SearchTerms : listShown /\ SetSearchTerm(t)
    \/ \E button \in PagerButtons : ListSetCurrentPage(button)
    \/ \E i \in 1..Len(list_paginatedComponents),
          confirmed \in BOOLEAN, outcome \in Outcomes :
           ListDeleteComponent(list_paginatedComponents[i], confirmed,
                               outcome)
    \/ \E confirmed \in BOOLEAN : listShown /\ HandleBatchDelete(confirmed)

SpecRows == InitSocket /\ [][NextRows]_vars

list_pageKeys ==
    {rowKey(list_paginatedComponents[i]) :
         i \in 1..Len(list_paginatedComponents)}

\* C26: select-all empties the selection exactly when every row of the
\* page shown is selected, and otherwise selects the rows of the page
\* shown and no other
C26_SelectAllTogglesPage ==
    (app = "list" /\ listShown) =>
        list_handleSelectAll =
            IF list_pageKeys \subseteq list_selectedRows THEN {}
            ELSE list_pageKeys

\* C27: every selected row is the row of a component of the list
C27_SelectedRowsListed ==
    app = "list" =>
        \A key \in list_selectedRows :
            \E i \in 1..Len(ctx_components) : rowKey(ctx_components[i]) = key

(***************************************************************************)
(* The upload handlers given a file that the browser cannot read (the file *)
(* was removed or changed after it was chosen, or a folder was dropped).   *)
(***************************************************************************)
\* the kinds of file that processFile hands to Papa.parse or to a
\* FileReader (src/frontend/src/pages/UploadPage.tsx lines 146, 186, 240)
processFile_reads(f) == fileType(f) \in {s_csv, s_xlsx, s_xls, s_json}
\* the same of processUploadFile (src/src/pages/ViewAllPage.tsx lines 219
\* and 255)
processUploadFile_reads(f) == fileType(f) \in {s_csv, s_json}

\* handleDrop and handleFileInput, lines 310-334, up to the await, with a
\* file that cannot be read: the reader fires its error event, for which
\* processFile sets no handler (no reader.onerror, lines 187-239 and
\* 241-288, and no error callback for Papa.parse, lines 147-184), so the
\* promise of line 142 is never resolved
ProcessFileUnreadable(f) ==
    /\ app = "frontend"
    /\ ~up_uploading
    /\ ~showUploadResultsModal
    /\ up_uploading' = TRUE
    /\ up_file' = <<f>>
    /\ unreadable' = processFile_reads(f)
    /\ UNCHANGED <<exceptRead, app, localVars, up_uploadResults,
                   showUploadResultsModal, saving, request, notification,
                   backend, normVars>>

\* handleUpload of the local page, lines 301-303, with a file that cannot
\* be read (processUploadFile, lines 214-298, sets no error handler)
HandleUploadUnreadable(f) ==
    /\ app = "local"
    /\ ~uploading
    /\ Len(localComponents) + rowCount(f) <= MaxStore
    /\ uploading' = TRUE
    /\ file' = <<f>>
    /\ unreadable' = processUploadFile_reads(f)
    /\ UNCHANGED <<exceptRead, app, localComponents, uploadResults,
                   showAddEdit, editingComponent, uploadPageVars, normVars>>

\* the files given to the local page: of a kind it does not read, and a
\* JSON file that does not parse
LiveFiles ==
    {TextFile, CsvFile(s_xlsx, <<HeaderRow, RowA1>>), JsonFile(InvalidDoc)}

NextUploadLive ==
    \/ \E f \in LiveFiles : HandleUploadStart(f)
    \/ \E f \in LiveFiles : HandleUploadUnreadable(f)
    \/ HandleUploadResolve
    \/ \E f \in PageFiles : ProcessFileStart(f)
    \/ \E f \in PageFiles : ProcessFileUnreadable(f)
    \/ ProcessFileResolve
    \/ CloseUploadResultsModal
    \/ SaveToDatabaseStart
    \/ \E answered \in BOOLEAN : SaveToDatabaseResolve(answered)

\* the callback of a read that ends is run by the browser
SpecUploadLive ==
    /\ Init
    /\ [][NextUploadLive]_vars
    /\ WF_vars(HandleUploadResolve)
    /\ WF_vars(ProcessFileResolve)

\* C28: an upload that has begun ends: uploading is false again and a
\* result is shown
C28_UploadTerminates ==
    (uploading \/ up_uploading)
        ~> /\ ~uploading
           /\ ~up_uploading
           /\ uploadResults # <<>> \/ up_uploadResults # <<>>

(***************************************************************************)
(* src/frontend/src/components/LiveProgressIndicator.tsx lines 40-84: the  *)
(* indicator's listeners and its timeout.  The parent that gives `show`    *)
(* and onClose is not among the sources: it gives an onClose, and it shows *)
(* and hides the indicator when it will.                                   *)
(***************************************************************************)
\* the parent renders the indicator with another `show`; the effect of
\* lines 40-84 adds the listeners when show is true (lines 73-77) and its
\* cleanup removes them (lines 79-83)
SetShow(shown) ==
    /\ app = "indicator"
    /\ show # shown
    /\ show' = shown
    /\ UNCHANGED <<exceptIndicator, progressData, isComplete, isError,
                   timers, completes, closeCalls>>

\* handleUploadProgress, lines 41-45
HandleUploadProgress ==
    /\ app = "indicator"
    /\ show
    /\ progressData' = "progress"
    /\ isError' = FALSE
    /\ UNCHANGED <<exceptIndicator, show, isComplete, timers, completes,
                   closeCalls>>

\* handleUploadComplete, lines 47-62
HandleUploadComplete ==
    /\ app = "indicator"
    /\ show
    /\ completes < MaxCompletes
    /\ progressData' = "complete"
    /\ isComplete' = TRUE
    /\ completes' = completes + 1
    /\ timers' = Append(timers, completes + 1)
    /\ UNCHANGED <<exceptIndicator, show, isError, closeCalls>>

\* handleUploadError, lines 64-71
HandleUploadError ==
    /\ app = "indicator"
    /\ show
    /\ isError' = TRUE
    /\ progressData' = "error"
    /\ UNCHANGED <<exceptIndicator, show, isComplete, timers, completes,
                   closeCalls>>

\* a timeout callback that leaves the state as it is
timeoutState_kept(data, complete) ==
    [progressData |-> data, isComplete |-> complete]
\* setIsComplete(false); setProgressData(null), lines 59-60
timeoutState(data, complete) ==
    [progressData |-> "null", isComplete |-> FALSE]

\* the callback of setTimeout, lines 57-61, 3000 ms after it was set: the
\* timeouts run in the order they were set
TimeoutFires ==
    /\ app = "indicator"
    /\ timers # <<>>
    /\ closeCalls' = [closeCalls EXCEPT ![Head(timers)] = @ + 1]
    /\ progressData' = timeoutState(progressData, isComplete).progressData
    /\ isComplete' = timeoutState(progressData, isComplete).isComplete
    /\ timers' = Tail(timers)
    /\ UNCHANGED <<exceptIndicator, show, isError, completes>>

InitIndicator ==
    /\ app = "indicator"
    /\ localComponents = <<>>
    /\ IdleLocal
    /\ IdleUploadPage
    /\ IdleNorm
    /\ IdleSelect
    /\ IdleSearch
    /\ IdleTheme
    /\ IdleList
    /\ IdleMore

NextIndicator ==
    \/ \E shown \in BOOLEAN : SetShow(shown)
    \/ HandleUploadProgress
    \/ HandleUploadComplete
    \/ HandleUploadError
    \/ TimeoutFires

\* the browser runs the callback of a timeout once its time has passed
SpecIndicator ==
    InitIndicator /\ [][NextIndicator]_vars /\ WF_vars(TimeoutFires)

\* C29: every upload_complete handled, its timeout set, leads to the
\* timeout running: then onClose has been called once for it, and never
\* more than once, and the indicator holds no progress data and is not
\* complete
C29_CompleteLeadsToClose ==
    /\ [](\A e \in 1..MaxCompletes : closeCalls[e] <= 1)
    /\ \A e \in 1..MaxCompletes :
           (\E i \in 1..Len(timers) : timers[i] = e)
               ~> (closeCalls[e] = 1 /\ progressData = "null"
                       /\ ~isComplete)

\* the second upload_complete's timeout has run while the indicator was
\* hidden again: onClose was called for both, and the state is reset
C29_TwoCompletesClosed ==
    /\ completes = 2
    /\ closeCalls[1] = 1
    /\ closeCalls[2] = 1
    /\ timers = <<>>
    /\ ~show
    /\ progressData = "null"
    /\ ~isComplete
====
